---- MODULE Spec2Model ----
(***************************************************************************)
(* Local Model Lifecycle Manager of Open-AutoGLM                           *)
(*   phone_agent/local_model/downloader.py  ModelDownloader,               *)
(*                                          VLLMServerManager              *)
(*   phone_agent/local_model/manager.py     LocalModelManager              *)
(*   phone_agent/local_model/environment.py EnvironmentDetector            *)
(*                                                                         *)
(* The specifications, over one set of variables:                          *)
(*   SpecDL   one ModelDownloader used directly (download_model,           *)
(*            download_model_async, stop_download), one download at a time *)
(*   SpecSrv  one VLLMServerManager used directly (start, stop,            *)
(*            is_running) with the server processes it spawns              *)
(*   Spec     one LocalModelManager (download_model, start_server,         *)
(*            stop_server, check_environment, get_recommended_setup,       *)
(*            get_status, install_dependencies, is_server_running)         *)
(*   SpecAuto one LocalModelManager running auto_setup                     *)
(*   SpecEnv  one EnvironmentDetector.detect() on any host                 *)
(*   SpecFiles ModelDownloader.is_model_downloaded on any model directory  *)
(*   SpecDLAny  SpecDL without the callers' one-download-at-a-time rule    *)
(*   SpecCb     SpecAuto and install_dependencies with progress callbacks  *)
(*              that may raise                                             *)
(*   SpecDLLive, SpecSrvLive  SpecDL and SpecSrv with weak fairness of the *)
(*              steps the program takes by itself                          *)
(***************************************************************************)
EXTENDS Integers, Sequences, FiniteSets, TLC

VARIABLES
    fs,               \* the model directories on disk: path -> directory
    progress,         \* ModelDownloader.progress (one DownloadProgress object)
    stop_flag,        \* ModelDownloader._stop_flag
    download_thread,  \* ModelDownloader._download_thread: "None" or "Thread"
    dl,               \* per thread, the activation of ModelDownloader.download_model
    joiner,           \* position of the main thread inside stop_download
    procs,            \* the inference-server processes spawned so far
    server,           \* the VLLMServerManager object (LocalModelManager.server)
    sv,               \* the activation of VLLMServerManager.start / stop / is_running
    system_info,      \* EnvironmentDetector.system_info
    config,           \* LocalModelManager._config
    config_file,      \* the JSON file at LocalModelManager.config_path
    mg,               \* the activation of a LocalModelManager method
    calls,            \* how many LocalModelManager calls have been issued
    obs,              \* what the callbacks received and the last query returned
    host              \* the host as the probes of EnvironmentDetector find it

vars == <<fs, progress, stop_flag, download_thread, dl, joiner,
          procs, server, sv, system_info, config, config_file, mg, calls,
          obs, host>>

dlVars  == <<fs, progress, stop_flag, download_thread, dl, joiner>>
srvVars == <<procs, server, sv>>
mgrVars == <<system_info, config, config_file, mg, calls, obs, host>>

-----------------------------------------------------------------------------
(* Bounds of the model *)

\* how many inference-server processes may be spawned in one behaviour
MaxProcs == 2

\* how many calls the front end issues on one LocalModelManager in one behaviour
MaxCalls == 2

-----------------------------------------------------------------------------
(* Model names, paths, directories *)

\* a model name is a sequence of tokens; "/" is the path separator character
M9B    == <<"AutoGLM-Phone-9B">>
MQ4    == <<"AutoGLM-Phone-9B-GGUF-Q4">>
MRepo  == <<"ZhipuAI", "/", "AutoGLM-Phone-9B">>
APIMODE == <<"API_MODE">>
NoName == <<>>

\* the model names callers pass in
Names == {M9B, MQ4, MRepo}

\* ModelDownloader.AVAILABLE_MODELS (its keys)
AVAILABLE_MODELS == {M9B}

\* ModelDownloader.get_model_path: model_dir / model_name.replace('/', '_')
get_model_path(model_name) ==
    [i \in DOMAIN model_name |-> IF model_name[i] = "/" THEN "_" ELSE model_name[i]]

Paths == {get_model_path(n) : n \in Names}

\* a directory: absent, or present with the set of files in its tree; a file
\* is its path relative to the directory, a sequence of tokens like a model
\* name, its last token the suffix
NoDir == [exists |-> FALSE, files |-> {}]
Dir(files) == [exists |-> TRUE, files |-> files]

config_json    == <<"config", ".json">>
tokenizer_json == <<"tokenizer", ".json">>

\* what a finished clone of the registry repository leaves in the directory
RepoFiles == {config_json, tokenizer_json, <<"model", ".safetensors">>}
\* what an interrupted clone may leave behind
PartialFiles == {config_json}

required_files == {config_json, tokenizer_json}
\* weight_patterns: '*.safetensors', '*.bin', '*.gguf'
weight_patterns == {".safetensors", ".bin", ".gguf"}

\* Path.rglob('*' + suffix): the files of the tree with the suffix
rglob(d, suffix) == {f \in d.files : f[Len(f)] = suffix}

\* Path.glob('*' + suffix): the entries of the directory itself whose name
\* ends with the suffix
glob(d, suffix) ==
    {f \in d.files : f[Len(f)] = suffix /\ \A i \in DOMAIN f : f[i] # "/"}

\* ModelDownloader.is_model_downloaded
is_model_downloaded(model_name) ==
    LET d == fs[get_model_path(model_name)] IN
    IF ~d.exists THEN FALSE
    ELSE IF \E f \in required_files : f \notin d.files THEN FALSE
    ELSE \E pattern \in weight_patterns : glob(d, pattern) # {}

-----------------------------------------------------------------------------
(* DownloadProgress and the activation of download_model *)

Msg(kind, code) == [kind |-> kind, code |-> code]
NoMsg == Msg("", 0)

-----------------------------------------------------------------------------
(* The inference-server processes and the VLLMServerManager object *)

\* the ports callers pass to start_server / VLLMServerManager: the default port
Ports == {8000}

\* VLLMServerManager._startup_timeout
startup_timeout == 30

\* self.process = None
None == 0

\* no VLLMServerManager has been constructed
NoServer == [exists |-> FALSE, model_path |-> <<>>, port |-> 0,
             process |-> None, is_running |-> FALSE]

\* VLLMServerManager.__init__
VLLMServerManager(model_path, port) ==
    [exists |-> TRUE, model_path |-> model_path, port |-> port,
     process |-> None, is_running |-> FALSE]

\* a spawned server process; phase: "booting" (port not open yet),
\* "serving" (the health endpoint answers 200) or "hung" (port held, no answer)
Proc(port) == [state |-> "alive", port |-> port, phase |-> "booting"]

\* a process that has exited holds no port and serves nothing
Exited == [state |-> "exited", port |-> 0, phase |-> "gone"]

\* process.poll() is None
Alive(i) == i # None /\ procs[i].state = "alive"

AliveProcs == {i \in DOMAIN procs : procs[i].state = "alive"}

\* requests.get("http://localhost:<port>/v1/models", timeout=2) answers 200
Health(port) ==
    \E i \in DOMAIN procs :
        procs[i].state = "alive" /\ procs[i].port = port /\ procs[i].phase = "serving"

\* no activation of a VLLMServerManager method
IdleSv == [op |-> "none", pc |-> "idle", attempt |-> 0, ret |-> FALSE,
           spawned |-> None, nested |-> FALSE, sig |-> <<>>]

SvFree == sv.pc \in {"idle", "done"}

StartFrame == [IdleSv EXCEPT !.op = "start", !.pc = "start"]
StopFrame  == [IdleSv EXCEPT !.op = "stop", !.pc = "stop"]

SvReturn(f, r) == [f EXCEPT !.pc = "done", !.ret = r]

\* the environment: a server process exits on its own
ProcExit(i) ==
    /\ i \in DOMAIN procs
    /\ procs[i].state = "alive"
    /\ procs' = [procs EXCEPT ![i] = Exited]
    /\ UNCHANGED <<server, sv, dlVars, mgrVars>>

\* the environment: a booting server opens its port and answers health probes
\* (a port is held by one process at a time)
HealthUp(i) ==
    /\ i \in DOMAIN procs
    /\ procs[i].state = "alive"
    /\ procs[i].phase = "booting"
    /\ \A j \in DOMAIN procs :
          (j # i /\ procs[j].state = "alive" /\ procs[j].port = procs[i].port)
              => procs[j].phase = "booting"
    /\ procs' = [procs EXCEPT ![i].phase = "serving"]
    /\ UNCHANGED <<server, sv, dlVars, mgrVars>>

\* the environment: a serving process stops answering while it stays alive
Hang(i) ==
    /\ i \in DOMAIN procs
    /\ procs[i].state = "alive"
    /\ procs[i].phase = "serving"
    /\ procs' = [procs EXCEPT ![i].phase = "hung"]
    /\ UNCHANGED <<server, sv, dlVars, mgrVars>>

-----------------------------------------------------------------------------
(* VLLMServerManager.stop *)

\* StopBegin that kills a live process at once
StopBegin_killfirst ==
    /\ sv.pc = "stop"
    /\ IF Alive(server.process)
       THEN /\ sv' = [sv EXCEPT !.pc = "term_wait", !.sig = Append(@, "kill")]
            /\ procs' = [procs EXCEPT ![server.process] = Exited]
            /\ UNCHANGED server
       ELSE /\ server' = [server EXCEPT !.process = None, !.is_running = FALSE]
            /\ sv' = IF sv.nested THEN SvReturn([sv EXCEPT !.op = "start"], FALSE)
                                  ELSE SvReturn(sv, FALSE)
            /\ UNCHANGED procs
    /\ UNCHANGED <<dlVars, mgrVars>>

\* StopBegin without the poll(): every handle is sent terminate()
StopBegin_nopoll ==
    /\ sv.pc = "stop"
    /\ IF server.process # None
       THEN /\ sv' = [sv EXCEPT !.pc = "term_wait", !.sig = Append(@, "terminate")]
            /\ UNCHANGED <<server, procs>>
       ELSE /\ server' = [server EXCEPT !.process = None, !.is_running = FALSE]
            /\ sv' = IF sv.nested THEN SvReturn([sv EXCEPT !.op = "start"], FALSE)
                                  ELSE SvReturn(sv, FALSE)
            /\ UNCHANGED procs
    /\ UNCHANGED <<dlVars, mgrVars>>

\* stop(): no handle, or a handle of an exited process: the handle and the
\* flag are cleared; a live process is sent terminate() and waited for
StopBegin ==
    /\ sv.pc = "stop"
    /\ IF Alive(server.process)
       THEN /\ sv' = [sv EXCEPT !.pc = "term_wait", !.sig = Append(@, "terminate")]
            /\ UNCHANGED <<server, procs>>
       ELSE /\ server' = [server EXCEPT !.process = None, !.is_running = FALSE]
            /\ sv' = IF sv.nested THEN SvReturn([sv EXCEPT !.op = "start"], FALSE)
                                  ELSE SvReturn(sv, FALSE)
            /\ UNCHANGED procs
    /\ UNCHANGED <<dlVars, mgrVars>>

\* the terminated process exits within the 10 seconds of wait(timeout=10)
TermExit ==
    /\ sv.pc = "term_wait"
    /\ Alive(server.process)
    /\ procs' = [procs EXCEPT ![server.process] = Exited]
    /\ UNCHANGED <<server, sv, dlVars, mgrVars>>

\* wait(timeout=10) returns, or raises TimeoutExpired and the process is
\* killed and waited for; finally the handle and the flag are cleared
StopEnd ==
    /\ sv.pc = "term_wait"
    /\ LET killed == Alive(server.process)
           f == [sv EXCEPT !.sig = IF killed THEN Append(@, "kill") ELSE @]
       IN /\ procs' = IF killed THEN [procs EXCEPT ![server.process] = Exited]
                                 ELSE procs
          /\ sv' = IF sv.nested THEN SvReturn([f EXCEPT !.op = "start"], FALSE)
                                ELSE SvReturn(f, FALSE)
    /\ server' = [server EXCEPT !.process = None, !.is_running = FALSE]
    /\ UNCHANGED <<dlVars, mgrVars>>

-----------------------------------------------------------------------------
(* VLLMServerManager.start *)

\* start(): imports, the model path check and subprocess.Popen
StartBegin ==
    /\ sv.pc = "start"
    /\ \/ \* ImportError (requests missing) or Popen raising: nothing is spawned
          /\ sv' = SvReturn(sv, FALSE)
          /\ UNCHANGED <<server, procs>>
       \/ /\ ~fs[server.model_path].exists
          /\ sv' = SvReturn(sv, FALSE)
          /\ UNCHANGED <<server, procs>>
       \/ /\ fs[server.model_path].exists
          /\ Len(procs) < MaxProcs
          /\ procs' = Append(procs, Proc(server.port))
          /\ server' = [server EXCEPT !.process = Len(procs) + 1]
          /\ sv' = [sv EXCEPT !.pc = "grace", !.spawned = Len(procs) + 1]
    /\ UNCHANGED <<dlVars, mgrVars>>

\* after time.sleep(2): a process that has already exited fails the start
StartGrace ==
    /\ sv.pc = "grace"
    /\ sv' = IF Alive(server.process) THEN [sv EXCEPT !.pc = "poll"]
                                      ELSE SvReturn(sv, FALSE)
    /\ UNCHANGED <<server, procs, dlVars, mgrVars>>

\* StartPoll that takes a live process for a healthy one
StartPoll_alive ==
    /\ sv.pc = "poll"
    /\ IF Alive(server.process)
       THEN /\ server' = [server EXCEPT !.is_running = TRUE]
            /\ sv' = SvReturn(sv, TRUE)
       ELSE /\ sv' = [sv EXCEPT !.pc = "sleep"]
            /\ UNCHANGED server
    /\ UNCHANGED <<procs, dlVars, mgrVars>>

\* one health probe of the polling loop
StartPoll ==
    /\ sv.pc = "poll"
    /\ IF Health(server.port)
       THEN /\ server' = [server EXCEPT !.is_running = TRUE]
            /\ sv' = SvReturn(sv, TRUE)
       ELSE /\ sv' = [sv EXCEPT !.pc = "sleep"]
            /\ UNCHANGED server
    /\ UNCHANGED <<procs, dlVars, mgrVars>>

\* StartSleep that returns on the timeout without the cleanup stop()
StartSleep_nostop ==
    /\ sv.pc = "sleep"
    /\ sv' = IF ~Alive(server.process) THEN SvReturn(sv, FALSE)
             ELSE IF sv.attempt + 1 < startup_timeout
                  THEN [sv EXCEPT !.pc = "poll", !.attempt = @ + 1]
                  ELSE SvReturn(sv, FALSE)
    /\ UNCHANGED <<server, procs, dlVars, mgrVars>>

\* after time.sleep(1): the liveness check that ends the iteration; after the
\* last iteration the start has timed out and calls stop()
StartSleep ==
    /\ sv.pc = "sleep"
    /\ sv' = IF ~Alive(server.process) THEN SvReturn(sv, FALSE)
             ELSE IF sv.attempt + 1 < startup_timeout
                  THEN [sv EXCEPT !.pc = "poll", !.attempt = @ + 1]
                  ELSE [sv EXCEPT !.pc = "stop", !.op = "stop", !.nested = TRUE]
    /\ UNCHANGED <<server, procs, dlVars, mgrVars>>

-----------------------------------------------------------------------------
(* VLLMServerManager.is_running *)

\* is_running answering from the cached flag
is_running_cached ==
    /\ SvFree
    /\ server.exists
    /\ sv' = SvReturn([IdleSv EXCEPT !.op = "is_running"], server.is_running)
    /\ UNCHANGED <<server, procs, dlVars, mgrVars>>

\* is_running(): the handle, the liveness of the process, then a health probe
is_running ==
    /\ SvFree
    /\ server.exists
    /\ IF server.process = None
       THEN /\ sv' = SvReturn([IdleSv EXCEPT !.op = "is_running"], FALSE)
            /\ UNCHANGED server
       ELSE IF ~Alive(server.process)
       THEN /\ sv' = SvReturn([IdleSv EXCEPT !.op = "is_running"], FALSE)
            /\ server' = [server EXCEPT !.is_running = FALSE]
       ELSE /\ sv' = SvReturn([IdleSv EXCEPT !.op = "is_running"], Health(server.port))
            /\ UNCHANGED server
    /\ UNCHANGED <<procs, dlVars, mgrVars>>

-----------------------------------------------------------------------------
(* Direct use of one VLLMServerManager: SpecSrv *)

\* a caller constructs the supervisor
NewServer(model_path, port) ==
    /\ ~server.exists
    /\ server' = VLLMServerManager(model_path, port)
    /\ UNCHANGED <<procs, sv, dlVars, mgrVars>>

\* a caller calls start()
CallStart ==
    /\ SvFree
    /\ server.exists
    /\ sv' = StartFrame
    /\ UNCHANGED <<server, procs, dlVars, mgrVars>>

\* a caller calls stop()
CallStop ==
    /\ SvFree
    /\ server.exists
    /\ sv' = StopFrame
    /\ UNCHANGED <<server, procs, dlVars, mgrVars>>


-----------------------------------------------------------------------------
(* DownloadProgress and the activation of download_model, continued *)

\* DownloadProgress.__init__
DownloadProgressInit ==
    [status |-> "waiting", error_message |-> NoMsg, current_file |-> "",
     total_size |-> 0, downloaded_size |-> 0, current_file_downloaded |-> 0]

\* DownloadProgress.total_percent, as a whole percentage
total_percent(p) ==
    IF p.total_size <= 0 THEN 0
    ELSE LET pct == ((p.downloaded_size + p.current_file_downloaded) * 100)
                        \div p.total_size
         IN IF pct > 100 THEN 100 ELSE pct

Threads == {"main", "bg"}

\* outcomes of subprocess.run(['git', ...], timeout=5)
ProbeOutcomes == {"ok", "nonzero", "notfound", "timeout", "oserror"}
\* exit statuses of git clone
ExitCodes == {0, 1, 128}

IdleFrame ==
    [pc |-> "idle", model |-> NoName, git |-> "none", lfs |-> "none",
     nclone |-> 0, rc |-> -1, ret |-> FALSE, dir0 |-> NoDir]

Active(t) == dl[t].pc \notin {"idle", "done"}

\* download_model returning r
Return(f, r) == [f EXCEPT !.pc = "done", !.ret = r]

\* a new activation f in thread t; the activations of returned calls are gone
Fresh(t, f) ==
    [u \in Threads |-> IF u = t THEN f ELSE IF Active(u) THEN dl[u] ELSE IdleFrame]

\* the main thread is inside a downloader call
MainBusy == Active("main") \/ joiner # "idle"

\* threading.Thread.is_alive of the download thread
ThreadAlive == download_thread = "Thread" /\ Active("bg")

-----------------------------------------------------------------------------
(* ModelDownloader.download_model, one step per blocking call *)

\* download_model up to the call of _download_via_git_clone:
\* callback and stop flag set, catalog lookup, status "downloading"
download_model_begin(t, model_name) ==
    /\ stop_flag' = FALSE
    /\ IF model_name \notin AVAILABLE_MODELS
       THEN /\ progress' = [progress EXCEPT !.status = "error",
                                            !.error_message = Msg("unknown model", 0)]
            /\ dl' = Fresh(t, Return([IdleFrame EXCEPT !.model = model_name,
                                    !.dir0 = fs[get_model_path(model_name)]], FALSE))
       ELSE /\ progress' = [progress EXCEPT !.status = "downloading",
                                            !.current_file = "preparing"]
            /\ dl' = Fresh(t, [IdleFrame EXCEPT !.pc = "git_probe",
                                    !.model = model_name,
                                    !.dir0 = fs[get_model_path(model_name)]])
    /\ UNCHANGED fs

\* _download_via_git_clone: subprocess.run(['git', '--version'], timeout=5)
GitProbe(t) ==
    /\ dl[t].pc = "git_probe"
    /\ \E out \in ProbeOutcomes :
         CASE out = "ok" ->
                /\ dl' = [dl EXCEPT ![t].pc = "lfs_probe", ![t].git = out]
                /\ UNCHANGED progress
           [] out \in {"nonzero", "notfound", "timeout"} ->
                /\ progress' = [progress EXCEPT !.status = "error",
                                                !.error_message = Msg("Git not installed", 0)]
                /\ dl' = [dl EXCEPT ![t] = Return([dl[t] EXCEPT !.git = out], FALSE)]
           [] OTHER ->  \* any other exception reaches download_model's handler
                /\ progress' = [progress EXCEPT !.status = "error",
                                                !.error_message = Msg("exception", 0)]
                /\ dl' = [dl EXCEPT ![t] = Return([dl[t] EXCEPT !.git = out], FALSE)]
    /\ UNCHANGED <<fs, stop_flag, download_thread, joiner, srvVars, mgrVars>>

\* LfsProbe with the return code of the probe ignored
LfsProbe_unchecked(t) ==
    /\ dl[t].pc = "lfs_probe"
    /\ \E out \in ProbeOutcomes :
         dl' = [dl EXCEPT ![t].pc = "rmtree", ![t].lfs = out]
    /\ UNCHANGED <<fs, progress, stop_flag, download_thread, joiner, srvVars, mgrVars>>

\* _download_via_git_clone: subprocess.run(['git', 'lfs', 'version'], timeout=5)
LfsProbe(t) ==
    /\ dl[t].pc = "lfs_probe"
    /\ \E out \in ProbeOutcomes :
         CASE out = "ok" ->
                /\ dl' = [dl EXCEPT ![t].pc = "rmtree", ![t].lfs = out]
                /\ UNCHANGED progress
           [] out \in {"nonzero", "notfound", "timeout"} ->
                /\ progress' = [progress EXCEPT !.status = "error",
                                                !.error_message = Msg("Git LFS not installed", 0)]
                /\ dl' = [dl EXCEPT ![t] = Return([dl[t] EXCEPT !.lfs = out], FALSE)]
           [] OTHER ->
                /\ progress' = [progress EXCEPT !.status = "error",
                                                !.error_message = Msg("exception", 0)]
                /\ dl' = [dl EXCEPT ![t] = Return([dl[t] EXCEPT !.lfs = out], FALSE)]
    /\ UNCHANGED <<fs, stop_flag, download_thread, joiner, srvVars, mgrVars>>

\* _download_via_git_clone: an existing destination is removed with
\* shutil.rmtree; a failing rmtree may already have removed the weight files
RemoveOld(t) ==
    /\ dl[t].pc = "rmtree"
    /\ LET p == get_model_path(dl[t].model) IN
       IF ~fs[p].exists
       THEN /\ dl' = [dl EXCEPT ![t].pc = "spawn"]
            /\ progress' = [progress EXCEPT !.current_file = "cloning"]
            /\ UNCHANGED fs
       ELSE \/ /\ fs' = [fs EXCEPT ![p] = NoDir]
               /\ dl' = [dl EXCEPT ![t].pc = "spawn"]
               /\ progress' = [progress EXCEPT !.current_file = "cloning"]
            \/ /\ \E d \in {fs[p], Dir(fs[p].files \cap required_files)} :
                    fs' = [fs EXCEPT ![p] = d]
               /\ progress' = [progress EXCEPT !.status = "error",
                                    !.error_message = Msg("cannot remove old directory", 0)]
               /\ dl' = [dl EXCEPT ![t] = Return(dl[t], FALSE)]
    /\ UNCHANGED <<stop_flag, download_thread, joiner, srvVars, mgrVars>>

\* _download_via_git_clone: subprocess.Popen(['git', 'clone', URL, save_path])
CloneSpawn(t) ==
    /\ dl[t].pc = "spawn"
    /\ \/ /\ dl' = [dl EXCEPT ![t].pc = "cloning", ![t].nclone = @ + 1]
          /\ UNCHANGED progress
       \/ /\ progress' = [progress EXCEPT !.status = "error",
                                !.error_message = Msg("Git clone exception", 0)]
          /\ dl' = [dl EXCEPT ![t] = Return(dl[t], FALSE)]
    /\ UNCHANGED <<fs, stop_flag, download_thread, joiner, srvVars, mgrVars>>

\* the read loop: the clone has created its directory and printed a progress line
CloneOutput(t) ==
    /\ dl[t].pc = "cloning"
    /\ LET p == get_model_path(dl[t].model) IN
       fs' = [fs EXCEPT ![p] = IF @.exists THEN @ ELSE Dir(PartialFiles)]
    /\ progress' = [progress EXCEPT !.current_file = "Receiving objects"]
    /\ UNCHANGED <<dl, stop_flag, download_thread, joiner, srvVars, mgrVars>>

\* CloneExit with the exit status of the clone ignored
CloneExit_anyrc(t) ==
    /\ dl[t].pc = "cloning"
    /\ \E rc \in ExitCodes :
         /\ fs' = [fs EXCEPT ![get_model_path(dl[t].model)] = Dir(RepoFiles)]
         /\ progress' = [progress EXCEPT !.status = "completed",
                                         !.current_file = "download finished"]
         /\ dl' = [dl EXCEPT ![t] = Return([dl[t] EXCEPT !.rc = rc], TRUE)]
    /\ UNCHANGED <<stop_flag, download_thread, joiner, srvVars, mgrVars>>

\* the clone exits with status rc; download_model returns on it
CloneExit(t) ==
    /\ dl[t].pc = "cloning"
    /\ LET p == get_model_path(dl[t].model) IN
       \E rc \in ExitCodes :
         IF rc = 0
         THEN /\ fs' = [fs EXCEPT ![p] = Dir(RepoFiles)]
              /\ progress' = [progress EXCEPT !.status = "completed",
                                              !.current_file = "download finished"]
              /\ dl' = [dl EXCEPT ![t] = Return([dl[t] EXCEPT !.rc = rc], TRUE)]
         ELSE /\ \E d \in {NoDir, fs[p]} : fs' = [fs EXCEPT ![p] = d]
              /\ progress' = [progress EXCEPT !.status = "error",
                                   !.error_message = Msg("Git clone failed", rc)]
              /\ dl' = [dl EXCEPT ![t] = Return([dl[t] EXCEPT !.rc = rc], FALSE)]
    /\ UNCHANGED <<stop_flag, download_thread, joiner, srvVars, mgrVars>>

-----------------------------------------------------------------------------
(* Direct use of one ModelDownloader: SpecDL *)

\* a caller calls download_model(model_name) on the main thread
download_model(model_name) ==
    /\ ~MainBusy
    /\ download_model_begin("main", model_name)
    /\ UNCHANGED <<download_thread, joiner, srvVars, mgrVars>>

\* ModelDownloader.download_model_async: a daemon thread is created and started
download_model_async(model_name) ==
    /\ ~MainBusy
    /\ download_thread' = "Thread"
    /\ dl' = Fresh("bg", [IdleFrame EXCEPT !.pc = "start", !.model = model_name])
    /\ UNCHANGED <<fs, progress, stop_flag, joiner, srvVars, mgrVars>>

\* the download thread runs its target, download_model
ThreadRun ==
    /\ dl["bg"].pc = "start"
    /\ download_model_begin("bg", dl["bg"].model)
    /\ UNCHANGED <<download_thread, joiner, srvVars, mgrVars>>

\* stop_download that also ends the running clone and the download with it
stop_download_hard ==
    /\ ~MainBusy
    /\ stop_flag' = TRUE
    /\ joiner' = "idle"
    /\ dl' = [t \in Threads |-> IF dl[t].pc = "cloning" THEN Return(dl[t], FALSE) ELSE dl[t]]
    /\ progress' = IF \E t \in Threads : dl[t].pc = "cloning"
                   THEN [progress EXCEPT !.status = "error"] ELSE progress
    /\ UNCHANGED <<fs, download_thread, srvVars, mgrVars>>

\* ModelDownloader.stop_download: the flag is set, then join(timeout=5)
\* is entered when the download thread is alive
stop_download ==
    /\ ~MainBusy
    /\ stop_flag' = TRUE
    /\ joiner' = IF ThreadAlive THEN "joining" ELSE "idle"
    /\ UNCHANGED <<fs, progress, download_thread, dl, srvVars, mgrVars>>

\* join(timeout=5) returns: the thread has ended or the 5 seconds are over
JoinReturn ==
    /\ joiner = "joining"
    /\ joiner' = "idle"
    /\ UNCHANGED <<fs, progress, stop_flag, download_thread, dl, srvVars, mgrVars>>

\* no download_model activation is running
NoDownload == \A t \in Threads : ~Active(t)

-----------------------------------------------------------------------------
(* EnvironmentDetector *)

\* the accelerator lists (memory_total of each GPU, in MB) a detection may find
GpuLists == {<<>>, <<6000>>, <<4000, 24000>>}

RECURSIVE MaxOf(_)
\* max(gpu.memory_total for gpu in gpus)
MaxOf(seq) ==
    IF Len(seq) = 1 THEN seq[1]
    ELSE LET m == MaxOf(Tail(seq)) IN IF seq[1] >= m THEN seq[1] ELSE m

\* get_recommendation with strict thresholds
get_recommendation_strict(cuda_available, gpus) ==
    IF ~cuda_available \/ gpus = <<>>
    THEN [recommended_model |-> APIMODE, recommended_quantization |-> "none",
          can_run_local |-> FALSE]
    ELSE LET max_vram == MaxOf(gpus) IN
         IF max_vram > 16000
         THEN [recommended_model |-> M9B, recommended_quantization |-> "fp16",
               can_run_local |-> TRUE]
         ELSE IF max_vram > 10000
         THEN [recommended_model |-> M9B, recommended_quantization |-> "int8",
               can_run_local |-> TRUE]
         ELSE IF max_vram > 6000
         THEN [recommended_model |-> MQ4, recommended_quantization |-> "q4_k_m",
               can_run_local |-> TRUE]
         ELSE [recommended_model |-> APIMODE, recommended_quantization |-> "none",
               can_run_local |-> FALSE]

\* EnvironmentDetector._get_recommendation: (model, quantization, can_run_local)
get_recommendation(cuda_available, gpus) ==
    IF ~cuda_available \/ gpus = <<>>
    THEN [recommended_model |-> APIMODE, recommended_quantization |-> "none",
          can_run_local |-> FALSE]
    ELSE LET max_vram == MaxOf(gpus) IN
         IF max_vram >= 16000
         THEN [recommended_model |-> M9B, recommended_quantization |-> "fp16",
               can_run_local |-> TRUE]
         ELSE IF max_vram >= 10000
         THEN [recommended_model |-> M9B, recommended_quantization |-> "int8",
               can_run_local |-> TRUE]
         ELSE IF max_vram >= 6000
         THEN [recommended_model |-> MQ4, recommended_quantization |-> "q4_k_m",
               can_run_local |-> TRUE]
         ELSE [recommended_model |-> APIMODE, recommended_quantization |-> "none",
               can_run_local |-> FALSE]

\* a host that has not been probed
NoHost == <<>>

\* EnvironmentDetector.system_info is None
NoInfo == [present |-> FALSE, gpus |-> <<>>, recommended_model |-> NoName,
           recommended_quantization |-> "none", can_run_local |-> FALSE]

\* EnvironmentDetector.detect on a host whose probes find the accelerators gpus
detect(gpus) ==
    LET r == get_recommendation(gpus # <<>>, gpus) IN
    [present |-> TRUE, gpus |-> gpus, recommended_model |-> r.recommended_model,
     recommended_quantization |-> r.recommended_quantization,
     can_run_local |-> r.can_run_local]

\* ---- the probes of EnvironmentDetector, with the exceptions they raise ----

\* the exception classes each try statement of the detector catches;
\* "Exception" is the catch-all clause
NvHandlers    == {"FileNotFoundError", "TimeoutExpired", "OSError", "Exception"}
TorchHandlers == {"ImportError", "Exception"}
GitHandlers_narrow == {"FileNotFoundError"}
GitHandlers   == {"FileNotFoundError", "TimeoutExpired", "OSError", "Exception"}
LfsHandlers   == {"FileNotFoundError", "TimeoutExpired", "OSError", "Exception"}
RamHandlers   == {"Exception"}

\* an exception of class exc (a subclass of Exception) is caught by a try
\* statement with these except clauses; "none": nothing was raised
Catches(handlers, exc) == exc = "none" \/ exc \in handlers \/ "Exception" \in handlers

\* a row of nvidia-smi whose memory column does not parse: float() raises
\* ValueError and the row is skipped
BadRow == -1

\* the rows of the nvidia-smi table that parse, in order
RECURSIVE ParseRows(_)
ParseRows(rows) ==
    IF rows = <<>> THEN <<>>
    ELSE IF Head(rows) = BadRow THEN ParseRows(Tail(rows))
    ELSE <<Head(rows)>> \o ParseRows(Tail(rows))

\* EnvironmentDetector._detect_gpu_environment: nvidia-smi first, torch only
\* when nvidia-smi gave no accelerator
detect_gpu_environment(h) ==
    LET nv == IF h.nv.exc = "none" /\ h.nv.rc = 0 THEN ParseRows(h.nv.rows)
              ELSE <<>>
        nvRaised == ~Catches(NvHandlers, h.nv.exc)
        useTorch == nv = <<>>
        gpus == IF ~useTorch THEN nv
                ELSE IF h.torch.exc = "none" /\ h.torch.available THEN h.torch.mems
                ELSE <<>>
    IN [raised |-> nvRaised \/ (useTorch /\ ~Catches(TorchHandlers, h.torch.exc)),
        cuda_available |-> gpus # <<>>,
        gpus |-> gpus]

\* EnvironmentDetector._detect_git_environment: git-lfs is probed only when
\* git answered with exit status 0
detect_git_environment(h) ==
    LET git == h.git.exc \in {"none", "IndexError"} /\ h.git.rc = 0
        lfs == git /\ h.lfs.exc \in {"none", "IndexError"} /\ h.lfs.rc = 0
    IN [raised |-> ~Catches(GitHandlers, h.git.exc)
                     \/ (git /\ ~Catches(LfsHandlers, h.lfs.exc)),
        git_available |-> git,
        lfs_available |-> lfs]

\* EnvironmentDetector._get_ram_total: the value read, or 8000 when the query
\* raises or finds no value
get_ram_total(h) ==
    [raised |-> ~Catches(RamHandlers, h.ram.exc),
     ram_total |-> IF h.ram.exc = "none" /\ h.ram.found THEN h.ram.mb ELSE 8000]

\* EnvironmentDetector.detect on the host h: the accelerators, the memory,
\* git, then the recommendation
detect_host(h) ==
    LET g == detect_gpu_environment(h)
        r == get_ram_total(h)
        v == detect_git_environment(h)
    IN [raised |-> g.raised \/ r.raised \/ v.raised,
        info |-> detect(g.gpus) @@
                 [cuda_available |-> g.cuda_available, ram_total |-> r.ram_total,
                  git_available |-> v.git_available,
                  lfs_available |-> v.lfs_available]]

\* total memory of an accelerator in MB: the thresholds and their neighbours
MemValues == {0, 5999, 6000, 9999, 10000, 15999, 16000, 24000}

\* what subprocess.run / import / open may raise in a probe
ProbeExceptions == {"FileNotFoundError", "TimeoutExpired", "OSError", "ValueError"}

\* the hosts the detector is run on
NvProbes ==
    {[exc |-> e, rc |-> 0, rows |-> <<>>] : e \in ProbeExceptions}
    \cup {[exc |-> "none", rc |-> 9, rows |-> <<>>]}
    \cup {[exc |-> "none", rc |-> 0, rows |-> rows] :
             rows \in {<<>>, <<BadRow>>, <<BadRow, 16000>>, <<4000, BadRow>>}
                      \cup {<<m>> : m \in MemValues}
                      \cup {<<m, 6000>> : m \in MemValues}}
TorchProbes ==
    {[exc |-> e, available |-> FALSE, mems |-> <<>>] :
        e \in {"ImportError", "RuntimeError"}}
    \cup {[exc |-> "none", available |-> FALSE, mems |-> <<>>],
          [exc |-> "none", available |-> TRUE, mems |-> <<10000>>]}
ToolProbes ==
    {[exc |-> e, rc |-> 0] : e \in ProbeExceptions \cup {"none", "IndexError"}}
    \cup {[exc |-> "none", rc |-> 1]}
RamProbes ==
    {[exc |-> "OSError", found |-> FALSE, mb |-> 0],
     [exc |-> "none", found |-> FALSE, mb |-> 0],
     [exc |-> "none", found |-> TRUE, mb |-> 32000]}
Hosts == [nv : NvProbes, torch : TorchProbes, git : ToolProbes, lfs : ToolProbes,
          ram : RamProbes]

\* a caller runs EnvironmentDetector.detect(); an exception leaves system_info
\* as it was
DetectHost ==
    /\ obs.out = <<>>
    /\ LET r == detect_host(host) IN
       /\ obs' = [obs EXCEPT !.out = r]
       /\ system_info' = IF r.raised THEN system_info ELSE r.info
    /\ UNCHANGED <<config, config_file, mg, calls, host, dlVars, srvVars>>

\* "if not self.environment.system_info: self.check_environment()"
EnsureInfo(info) ==
    IF system_info.present THEN info = system_info
    ELSE \E g \in GpuLists : info = detect(g)

-----------------------------------------------------------------------------
(* LocalModelManager *)

\* the persisted configuration; NoName, <<>> and 0 stand for an absent key
EmptyConfig == [last_model |-> NoName, model_path |-> <<>>, server_port |-> 0]

IdleMg == [op |-> "none", pc |-> "idle", model |-> NoName, port |-> 0, ret |-> FALSE]

\* no LocalModelManager method is running
MgFree == mg.pc \in {"idle", "done"} /\ SvFree /\ ~MainBusy

\* the front end issues one more call
NewCall == calls < MaxCalls /\ calls' = calls + 1

MgReturn(op, model, port, r) ==
    [op |-> op, pc |-> "done", model |-> model, port |-> port, ret |-> r]

\* LocalModelManager._save_config: write_text, any exception swallowed
save_config(c) == config_file' \in {c, config_file}

\* nothing observed yet: events sent to the status observer (_notify_status),
\* events sent to the progress callback of auto_setup, the stages auto_setup
\* has entered, the value the last query returned, the fraction of every
\* progress callback call of auto_setup as a whole percentage, and whether the
\* call ended with an exception reaching its caller
NoObs == [events |-> <<>>, pcb |-> <<>>, stages |-> <<>>, out |-> <<>>,
          frac |-> <<>>, raised |-> FALSE]

\* the events of "if not self.environment.system_info: self.check_environment()"
EnvEvents ==
    IF system_info.present THEN <<>>
    ELSE <<"environment_check_start", "environment_check_done">>

\* _notify_status in a call that starts here / in the running call
Notify(evs) == obs' = [NoObs EXCEPT !.events = evs]
\* NotifyMore that calls the observer twice for every event
NotifyMore_twice(evs) == obs' = [obs EXCEPT !.events = @ \o evs \o evs]
NotifyMore(evs) == obs' = [obs EXCEPT !.events = @ \o evs]

\* LocalModelManager.check_environment
check_environment ==
    /\ MgFree
    /\ NewCall
    /\ \E g \in GpuLists : system_info' = detect(g)
    /\ mg' = MgReturn("check_environment", NoName, 0, TRUE)
    /\ Notify(<<"environment_check_start", "environment_check_done">>)
    /\ UNCHANGED <<config, config_file, host, dlVars, srvVars>>

\* the plan of a host that cannot run locally
ApiPlan == <<[step |-> 1, action |-> "use_api"],
             [step |-> 2, action |-> "config_api_key"]>>

\* dep_checks: the runtime dependencies in the order they are checked
dep_checks == <<"install_pytorch", "install_vllm", "install_transformers">>

\* "steps, step_num = [], 1"
NoSteps == [steps |-> <<>>, step_num |-> 1]

\* AddStep that keeps the step number
AddStep_nonum(p, action) ==
    [steps |-> Append(p.steps, [step |-> p.step_num, action |-> action]),
     step_num |-> p.step_num]

\* "steps.append({'step': step_num, ...}); step_num += 1"
AddStep(p, action) ==
    [steps |-> Append(p.steps, [step |-> p.step_num, action |-> action]),
     step_num |-> p.step_num + 1]

\* the loop over dep_checks: a step for every dependency whose check raises
\* ImportError or RuntimeError
RECURSIVE DepSteps(_, _, _)
DepSteps(p, i, missing) ==
    IF i > Len(dep_checks) THEN p
    ELSE DepSteps(IF dep_checks[i] \in missing THEN AddStep(p, dep_checks[i]) ELSE p,
                  i + 1, missing)

\* the steps of a host that can run locally
LocalPlan(info, missing) ==
    LET deps == DepSteps(NoSteps, 1, missing)
        down == IF ~is_model_downloaded(info.recommended_model)
                THEN AddStep(deps, "download_model") ELSE deps
    IN Append(down.steps, [step |-> down.step_num, action |-> "start_server"])

\* the dictionary get_recommended_setup returns
Setup(info, missing) ==
    IF ~info.can_run_local
    THEN [can_run_local |-> FALSE, recommended_model |-> APIMODE, steps |-> ApiPlan]
    ELSE [can_run_local |-> TRUE, recommended_model |-> info.recommended_model,
          steps |-> LocalPlan(info, missing)]

\* LocalModelManager.get_recommended_setup
get_recommended_setup ==
    /\ MgFree
    /\ NewCall
    /\ EnsureInfo(system_info')
    /\ mg' = MgReturn("get_recommended_setup", NoName, 0, system_info'.can_run_local)
    /\ \E missing \in SUBSET {dep_checks[i] : i \in DOMAIN dep_checks} :
          obs' = [NoObs EXCEPT !.events = EnvEvents,
                               !.out = Setup(system_info', missing)]
    /\ UNCHANGED <<config, config_file, host, dlVars, srvVars>>

\* LocalModelManager.get_status: is_server_running() runs server.is_running(),
\* which drops the flag of an exited process
get_status ==
    /\ MgFree
    /\ NewCall
    /\ EnsureInfo(system_info')
    /\ server' = IF server.exists /\ server.process # None /\ ~Alive(server.process)
                 THEN [server EXCEPT !.is_running = FALSE] ELSE server
    /\ mg' = MgReturn("get_status", NoName, 0,
                      server.exists /\ Alive(server.process) /\ Health(server.port))
    /\ Notify(EnvEvents)
    /\ UNCHANGED <<config, config_file, host, dlVars, procs, sv>>

\* how a pip subprocess of install_dependencies ends: exit status 0, a non-zero
\* exit status, TimeoutExpired from communicate(), OSError from Popen
InstallOutcomes == {"ok", "nonzero", "timeout", "oserror"}

\* LocalModelManager.install_dependencies: a failing PyTorch install raises, a
\* non-zero exit of a later package is only printed, every exception is caught
\* and reported as install_error
install_dependencies ==
    /\ MgFree
    /\ NewCall
    /\ EnsureInfo(system_info')
    /\ \E torch \in InstallOutcomes, deps \in InstallOutcomes :
          LET success == torch = "ok" /\ deps \in {"ok", "nonzero"} IN
          /\ mg' = MgReturn("install_dependencies", NoName, 0, success)
          /\ Notify(EnvEvents \o (IF success THEN <<>> ELSE <<"install_error">>))
    /\ UNCHANGED <<config, config_file, host, dlVars, srvVars>>

\* the fractions install_dependencies passes to its progress callback, as whole
\* percentages: 0.05, 0.1, 0.5, 1.0
InstallCalls == <<5, 10, 50, 100>>

\* install_dependencies with a progress callback: raises is the set of
\* callback calls (by position) that raise, torch and deps are how the pip
\* subprocesses end; every exception, the callback's included, is caught by
\* the handler of install_dependencies, which reports install_error and
\* returns False; ncalls is how many times the callback was called
InstallRun(raises, torch, deps) ==
    IF 1 \in raises THEN [ret |-> FALSE, ncalls |-> 1]
    ELSE IF 2 \in raises THEN [ret |-> FALSE, ncalls |-> 2]
    ELSE IF torch # "ok" THEN [ret |-> FALSE, ncalls |-> 2]
    ELSE IF 3 \in raises THEN [ret |-> FALSE, ncalls |-> 3]
    ELSE IF deps \in {"timeout", "oserror"} THEN [ret |-> FALSE, ncalls |-> 3]
    ELSE IF 4 \in raises THEN [ret |-> FALSE, ncalls |-> 4]
    ELSE [ret |-> TRUE, ncalls |-> 4]

\* LocalModelManager.is_server_running
is_server_running ==
    /\ MgFree
    /\ calls < MaxCalls
    /\ is_running

\* LocalModelManager.download_model up to the downloader's download_model:
\* the default model, the API_MODE exit, then the downloader is entered
mgr_download_model(model_name) ==
    /\ MgFree
    /\ NewCall
    /\ IF model_name = NoName THEN EnsureInfo(system_info')
                              ELSE UNCHANGED system_info
    /\ LET name == IF model_name = NoName THEN system_info'.recommended_model
                                          ELSE model_name IN
       IF name = APIMODE
       THEN /\ mg' = MgReturn("download_model", name, 0, FALSE)
            /\ Notify(IF model_name = NoName THEN EnvEvents ELSE <<>>)
            /\ UNCHANGED <<fs, progress, stop_flag, dl>>
       ELSE /\ download_model_begin("main", name)
            /\ Notify((IF model_name = NoName THEN EnvEvents ELSE <<>>)
                         \o <<"download_start">>)
            /\ mg' = [IdleMg EXCEPT !.op = "download_model", !.pc = "downloading",
                                    !.model = name]
    /\ UNCHANGED <<config, config_file, host, download_thread, joiner, srvVars>>

\* mgr_download_model_end that persists the model whatever the downloader returned
mgr_download_model_end_always ==
    /\ mg.pc = "downloading"
    /\ dl["main"].pc = "done"
    /\ config' = [config EXCEPT !.last_model = mg.model,
                                !.model_path = get_model_path(mg.model)]
    /\ save_config(config')
    /\ NotifyMore(<<"download_complete">>)
    /\ mg' = [mg EXCEPT !.pc = "done", !.ret = dl["main"].ret]
    /\ dl' = [dl EXCEPT !["main"] = IdleFrame]
    /\ UNCHANGED <<system_info, calls, host, fs, progress, stop_flag,
                   download_thread, joiner, srvVars>>

\* LocalModelManager.download_model after the downloader returned
mgr_download_model_end ==
    /\ mg.pc = "downloading"
    /\ dl["main"].pc = "done"
    /\ IF dl["main"].ret
       THEN /\ config' = [config EXCEPT !.last_model = mg.model,
                                        !.model_path = get_model_path(mg.model)]
            /\ save_config(config')
            /\ NotifyMore(<<"download_complete">>)
       ELSE /\ UNCHANGED <<config, config_file>>
            /\ NotifyMore(<<"download_error">>)
    /\ mg' = [mg EXCEPT !.pc = "done", !.ret = dl["main"].ret]
    /\ dl' = [dl EXCEPT !["main"] = IdleFrame]
    /\ UNCHANGED <<system_info, calls, host, fs, progress, stop_flag,
                   download_thread, joiner, srvVars>>

\* mgr_start_server without the is_model_downloaded check
mgr_start_server_unchecked(model_name, port) ==
    /\ MgFree
    /\ NewCall
    /\ LET name == IF model_name = NoName THEN config.last_model ELSE model_name IN
       IF name = NoName
       THEN /\ mg' = MgReturn("start_server", name, port, FALSE)
            /\ Notify(<<"server_error">>)
            /\ UNCHANGED <<server, sv>>
       ELSE /\ server' = VLLMServerManager(get_model_path(name), port)
            /\ sv' = StartFrame
            /\ Notify(<<"server_starting">>)
            /\ mg' = [IdleMg EXCEPT !.op = "start_server", !.pc = "starting",
                                    !.model = name, !.port = port]
    /\ UNCHANGED <<system_info, config, config_file, host, procs, dlVars>>

\* LocalModelManager.start_server up to server.start(): the model is resolved
\* and verified, a new VLLMServerManager replaces self.server
mgr_start_server(model_name, port) ==
    /\ MgFree
    /\ NewCall
    /\ LET name == IF model_name = NoName THEN config.last_model ELSE model_name IN
       IF name = NoName
       THEN /\ mg' = MgReturn("start_server", name, port, FALSE)
            /\ Notify(<<"server_error">>)
            /\ UNCHANGED <<server, sv>>
       ELSE IF ~is_model_downloaded(name)
       THEN /\ mg' = MgReturn("start_server", name, port, FALSE)
            /\ Notify(<<"server_error">>)
            /\ UNCHANGED <<server, sv>>
       ELSE /\ server' = VLLMServerManager(get_model_path(name), port)
            /\ sv' = StartFrame
            /\ Notify(<<"server_starting">>)
            /\ mg' = [IdleMg EXCEPT !.op = "start_server", !.pc = "starting",
                                    !.model = name, !.port = port]
    /\ UNCHANGED <<system_info, config, config_file, host, procs, dlVars>>

\* mgr_start_server_end that persists the port only
mgr_start_server_end_portonly ==
    /\ mg.pc = "starting"
    /\ sv.pc = "done"
    /\ IF sv.ret
       THEN /\ config' = [config EXCEPT !.server_port = mg.port]
            /\ save_config(config')
            /\ NotifyMore(<<"server_started">>)
       ELSE /\ UNCHANGED <<config, config_file>>
            /\ NotifyMore(<<"server_error">>)
    /\ mg' = [mg EXCEPT !.pc = "done", !.ret = sv.ret]
    /\ sv' = IdleSv
    /\ UNCHANGED <<system_info, calls, host, dlVars, server, procs>>

\* LocalModelManager.start_server after server.start() returned
mgr_start_server_end ==
    /\ mg.pc = "starting"
    /\ sv.pc = "done"
    /\ IF sv.ret
       THEN /\ config' = [config EXCEPT !.server_port = mg.port,
                                        !.last_model = mg.model]
            /\ save_config(config')
            /\ NotifyMore(<<"server_started">>)
       ELSE /\ UNCHANGED <<config, config_file>>
            /\ NotifyMore(<<"server_error">>)
    /\ mg' = [mg EXCEPT !.pc = "done", !.ret = sv.ret]
    /\ sv' = IdleSv
    /\ UNCHANGED <<system_info, calls, host, dlVars, server, procs>>

\* LocalModelManager.stop_server up to server.stop()
mgr_stop_server ==
    /\ MgFree
    /\ NewCall
    /\ IF server.exists
       THEN /\ sv' = StopFrame
            /\ Notify(<<>>)
            /\ mg' = [IdleMg EXCEPT !.op = "stop_server", !.pc = "stopping"]
       ELSE /\ mg' = MgReturn("stop_server", NoName, 0, TRUE)
            /\ Notify(<<"server_stopped">>)
            /\ UNCHANGED sv
    /\ UNCHANGED <<system_info, config, config_file, host, server, procs, dlVars>>

\* LocalModelManager.stop_server after server.stop() returned
mgr_stop_server_end ==
    /\ mg.pc = "stopping"
    /\ sv.pc = "done"
    /\ mg' = [mg EXCEPT !.pc = "done", !.ret = TRUE]
    /\ sv' = IdleSv
    /\ NotifyMore(<<"server_stopped">>)
    /\ UNCHANGED <<system_info, config, config_file, calls, host, dlVars, server,
                   procs>>

\* ModelDownloader.delete_model, called from another thread of the front end
\* at any time: the directory is removed, or rmtree fails and False is returned
delete_model(model_name) ==
    /\ NewCall
    /\ LET p == get_model_path(model_name) IN
       /\ fs[p].exists
       /\ \E d \in {NoDir, fs[p]} : fs' = [fs EXCEPT ![p] = d]
    /\ UNCHANGED <<progress, stop_flag, download_thread, dl, joiner, srvVars,
                   system_info, config, config_file, mg, obs, host>>

-----------------------------------------------------------------------------
(* LocalModelManager.auto_setup *)

\* one call of the progress callback of auto_setup: the stage it names and
\* what the call reports
PEvent(stage, note) == [stage |-> stage, note |-> note]

\* the wrapper auto_setup passes to install_dependencies:
\* lambda m, p: progress_callback('...', 0.1 + p * 0.2, m)
InstallFraction(p) == 10 + (p * 20) \div 100

\* the fractions of the first n callback calls of install_dependencies
InstallFractions(n) == [i \in 1..n |-> InstallFraction(InstallCalls[i])]

\* the wrapper auto_setup passes to download_model:
\* lambda dp: progress_callback('...', 0.3 + dp.total_percent / 100 * 0.5, ...)
DownloadFraction(dp) == 30 + (total_percent(dp) * 50) \div 100

\* auto_setup that profiles the host only when it has no profile yet
auto_setup_cached ==
    /\ MgFree
    /\ NewCall
    /\ EnsureInfo(system_info')
    /\ IF ~system_info'.can_run_local
       THEN /\ mg' = MgReturn("auto_setup", NoName, 0, FALSE)
            /\ obs' = [NoObs EXCEPT
                          !.events = EnvEvents,
                          !.stages = IF system_info.present THEN <<>>
                                     ELSE <<"environment">>,
                          !.pcb = <<PEvent("detect_env", "begin"),
                                    PEvent("detect_done", "infeasible")>>,
                          !.frac = <<5, 100>>]
       ELSE /\ mg' = [IdleMg EXCEPT !.op = "auto_setup", !.pc = "as_install",
                                    !.model = system_info'.recommended_model]
            /\ obs' = [NoObs EXCEPT
                          !.events = EnvEvents,
                          !.stages = IF system_info.present THEN <<>>
                                     ELSE <<"environment">>,
                          !.pcb = <<PEvent("detect_env", "begin")>>,
                          !.frac = <<5>>]
    /\ UNCHANGED <<config, config_file, host, dlVars, srvVars>>

\* auto_setup, stage 1: check_environment, and the exit of a host that cannot
\* run locally
auto_setup ==
    /\ MgFree
    /\ NewCall
    /\ \E g \in GpuLists : system_info' = detect(g)
    /\ IF ~system_info'.can_run_local
       THEN /\ mg' = MgReturn("auto_setup", NoName, 0, FALSE)
            /\ obs' = [NoObs EXCEPT
                          !.events = <<"environment_check_start",
                                       "environment_check_done">>,
                          !.stages = <<"environment">>,
                          !.pcb = <<PEvent("detect_env", "begin"),
                                    PEvent("detect_done", "infeasible")>>,
                          !.frac = <<5, 100>>]
       ELSE /\ mg' = [IdleMg EXCEPT !.op = "auto_setup", !.pc = "as_install",
                                    !.model = system_info'.recommended_model]
            /\ obs' = [NoObs EXCEPT
                          !.events = <<"environment_check_start",
                                       "environment_check_done">>,
                          !.stages = <<"environment">>,
                          !.pcb = <<PEvent("detect_env", "begin")>>,
                          !.frac = <<5>>]
    /\ UNCHANGED <<config, config_file, host, dlVars, srvVars>>

\* auto_setup, stage 2: install_dependencies with the progress callback
\* wrapped; a failed installation returns False
auto_install ==
    /\ mg.op = "auto_setup" /\ mg.pc = "as_install"
    /\ \E torch \in InstallOutcomes, deps \in InstallOutcomes :
          LET success == torch = "ok" /\ deps \in {"ok", "nonzero"}
              run == InstallRun({}, torch, deps)
          IN
          IF success
          THEN /\ mg' = [mg EXCEPT !.pc = "as_download"]
               /\ obs' = [obs EXCEPT
                             !.stages = Append(@, "install"),
                             !.pcb = @ \o <<PEvent("install", "begin"),
                                            PEvent("install", "finished")>>,
                             !.frac = @ \o <<10>> \o InstallFractions(run.ncalls)]
          ELSE /\ mg' = [mg EXCEPT !.pc = "done", !.ret = FALSE]
               /\ obs' = [obs EXCEPT
                             !.stages = Append(@, "install"),
                             !.events = Append(@, "install_error"),
                             !.pcb = Append(@, PEvent("install", "begin")),
                             !.frac = @ \o <<10>> \o InstallFractions(run.ncalls)]
    /\ UNCHANGED <<system_info, config, config_file, calls, host, dlVars, srvVars>>

\* auto_setup, stage 3: a complete model is kept, any other is downloaded
\* with download_model
auto_download ==
    /\ mg.op = "auto_setup" /\ mg.pc = "as_download"
    /\ IF is_model_downloaded(mg.model)
       THEN /\ mg' = [mg EXCEPT !.pc = "as_start"]
            /\ obs' = [obs EXCEPT !.pcb = Append(@, PEvent("download", "skipped")),
                                  !.frac = Append(@, 80)]
            /\ UNCHANGED <<fs, progress, stop_flag, dl>>
       ELSE /\ download_model_begin("main", mg.model)
            /\ mg' = [mg EXCEPT !.pc = "as_downloading"]
            /\ obs' = [obs EXCEPT
                          !.stages = Append(@, "download"),
                          !.events = Append(@, "download_start"),
                          !.pcb = Append(@, PEvent("download", "begin")),
                          !.frac = Append(@, 30)]
    /\ UNCHANGED <<system_info, config, config_file, calls, host, download_thread,
                   joiner, srvVars>>

\* the calls of the wrapped callback made by the downloader: every path of a
\* catalog model ends with _notify_progress, an unknown model notifies nothing
DownloaderProgress ==
    IF dl["main"].model \in AVAILABLE_MODELS
    THEN <<PEvent("download", progress.status)>> ELSE <<>>

\* the fractions of those calls: the first notification of download_model and
\* the one that ends it; no step of the downloader writes the size fields of
\* DownloadProgress, so every notification in between carries the same value
DownloaderFractions ==
    IF dl["main"].model \in AVAILABLE_MODELS
    THEN <<DownloadFraction(progress), DownloadFraction(progress)>> ELSE <<>>

\* auto_setup, stage 3 after download_model returned
auto_download_end ==
    /\ mg.op = "auto_setup" /\ mg.pc = "as_downloading"
    /\ dl["main"].pc = "done"
    /\ IF dl["main"].ret
       THEN /\ config' = [config EXCEPT !.last_model = mg.model,
                                        !.model_path = get_model_path(mg.model)]
            /\ save_config(config')
            /\ mg' = [mg EXCEPT !.pc = "as_start"]
            /\ obs' = [obs EXCEPT !.events = Append(@, "download_complete"),
                                  !.pcb = @ \o DownloaderProgress,
                                  !.frac = @ \o DownloaderFractions]
       ELSE /\ UNCHANGED <<config, config_file>>
            /\ mg' = [mg EXCEPT !.pc = "done", !.ret = FALSE]
            /\ obs' = [obs EXCEPT !.events = Append(@, "download_error"),
                                  !.pcb = @ \o DownloaderProgress,
                                  !.frac = @ \o DownloaderFractions]
    /\ dl' = [dl EXCEPT !["main"] = IdleFrame]
    /\ UNCHANGED <<system_info, calls, host, fs, progress, stop_flag,
                   download_thread, joiner, srvVars>>

\* auto_setup, stage 4: start_server(model_name) on the default port verifies
\* the model with is_model_downloaded and enters server.start()
auto_start ==
    /\ mg.op = "auto_setup" /\ mg.pc = "as_start"
    /\ IF ~is_model_downloaded(mg.model)
       THEN /\ mg' = [mg EXCEPT !.pc = "done", !.ret = FALSE, !.port = 8000]
            /\ obs' = [obs EXCEPT
                          !.stages = Append(@, "start"),
                          !.events = Append(@, "server_error"),
                          !.pcb = Append(@, PEvent("start", "begin")),
                          !.frac = Append(@, 85),
                          !.out = [verified |-> FALSE]]
            /\ UNCHANGED <<server, sv>>
       ELSE /\ server' = VLLMServerManager(get_model_path(mg.model), 8000)
            /\ sv' = StartFrame
            /\ mg' = [mg EXCEPT !.pc = "as_starting", !.port = 8000]
            /\ obs' = [obs EXCEPT
                          !.stages = Append(@, "start"),
                          !.events = Append(@, "server_starting"),
                          !.pcb = Append(@, PEvent("start", "begin")),
                          !.frac = Append(@, 85),
                          !.out = [verified |-> TRUE]]
    /\ UNCHANGED <<system_info, config, config_file, calls, host, procs, dlVars>>

\* auto_setup, stage 4 after server.start() returned; on success the final
\* progress call reads get_api_base(), which runs is_running()
auto_start_end ==
    /\ mg.op = "auto_setup" /\ mg.pc = "as_starting"
    /\ sv.pc = "done"
    /\ IF sv.ret
       THEN /\ config' = [config EXCEPT !.server_port = mg.port,
                                        !.last_model = mg.model]
            /\ save_config(config')
            /\ server' = IF ~Alive(server.process)
                         THEN [server EXCEPT !.is_running = FALSE] ELSE server
            /\ obs' = [obs EXCEPT !.events = Append(@, "server_started"),
                                  !.pcb = Append(@, PEvent("complete", "finished")),
                                  !.frac = Append(@, 100)]
       ELSE /\ UNCHANGED <<config, config_file, server>>
            /\ obs' = [obs EXCEPT !.events = Append(@, "server_error")]
    /\ mg' = [mg EXCEPT !.pc = "done", !.ret = sv.ret]
    /\ sv' = IdleSv
    /\ UNCHANGED <<system_info, calls, host, dlVars, procs>>

-----------------------------------------------------------------------------
(* auto_setup and install_dependencies with a progress callback that raises *)

\* the handler of auto_setup (except Exception): the callback is called once
\* more with '错误' and 1.0; when it returns, auto_setup returns False; when
\* it raises again, the exception leaves auto_setup. o is what was observed
\* up to the call that raised
AutoHandler(o) ==
    \E again \in BOOLEAN :
        obs' = [o EXCEPT !.pcb = Append(@, PEvent("error", "exception")),
                         !.frac = Append(@, 100),
                         !.raised = again]

\* auto_setup, stage 1, with a callback that raises: in the first call, or in
\* the call that reports a host that cannot run locally
auto_setup_cb_raises ==
    /\ MgFree
    /\ NewCall
    /\ \/ /\ UNCHANGED system_info
          /\ AutoHandler([NoObs EXCEPT !.pcb = <<PEvent("detect_env", "begin")>>,
                                       !.frac = <<5>>])
       \/ /\ \E g \in GpuLists : system_info' = detect(g)
          /\ ~system_info'.can_run_local
          /\ AutoHandler([NoObs EXCEPT
                             !.events = <<"environment_check_start",
                                          "environment_check_done">>,
                             !.stages = <<"environment">>,
                             !.pcb = <<PEvent("detect_env", "begin"),
                                       PEvent("detect_done", "infeasible")>>,
                             !.frac = <<5, 100>>])
    /\ mg' = MgReturn("auto_setup", NoName, 0, FALSE)
    /\ UNCHANGED <<config, config_file, host, dlVars, srvVars>>

\* auto_setup: the callback call that opens stage 2, 3 or 4 raises; the stage
\* is not entered
auto_stage_cb_raises ==
    /\ mg.op = "auto_setup" /\ mg.pc \in {"as_install", "as_download", "as_start"}
    /\ LET o == CASE mg.pc = "as_install" ->
                       [obs EXCEPT !.pcb = Append(@, PEvent("install", "begin")),
                                   !.frac = Append(@, 10)]
                  [] mg.pc = "as_download" /\ is_model_downloaded(mg.model) ->
                       [obs EXCEPT !.pcb = Append(@, PEvent("download", "skipped")),
                                   !.frac = Append(@, 80)]
                  [] mg.pc = "as_download" /\ ~is_model_downloaded(mg.model) ->
                       [obs EXCEPT !.pcb = Append(@, PEvent("download", "begin")),
                                   !.frac = Append(@, 30)]
                  [] mg.pc = "as_start" ->
                       [obs EXCEPT !.pcb = Append(@, PEvent("start", "begin")),
                                   !.frac = Append(@, 85)]
       IN AutoHandler(o)
    /\ mg' = [mg EXCEPT !.pc = "done", !.ret = FALSE]
    /\ UNCHANGED <<system_info, config, config_file, calls, host, dlVars, srvVars>>

\* auto_setup, stage 2: the wrapped callback raises inside
\* install_dependencies, whose handler turns the exception into install_error
\* and False
auto_install_cb_raises ==
    /\ mg.op = "auto_setup" /\ mg.pc = "as_install"
    /\ \E raises \in (SUBSET (DOMAIN InstallCalls)) \ {{}},
          torch \in InstallOutcomes, deps \in InstallOutcomes :
          LET run == InstallRun(raises, torch, deps) IN
          /\ ~run.ret
          /\ obs' = [obs EXCEPT
                        !.stages = Append(@, "install"),
                        !.events = Append(@, "install_error"),
                        !.pcb = Append(@, PEvent("install", "begin")),
                        !.frac = @ \o <<10>> \o InstallFractions(run.ncalls)]
    /\ mg' = [mg EXCEPT !.pc = "done", !.ret = FALSE]
    /\ UNCHANGED <<system_info, config, config_file, calls, host, dlVars, srvVars>>

\* auto_setup, stage 4 after server.start() returned True: the config is
\* saved and server_started sent by start_server, then the final callback
\* call raises
auto_complete_cb_raises ==
    /\ mg.op = "auto_setup" /\ mg.pc = "as_starting"
    /\ sv.pc = "done"
    /\ sv.ret
    /\ config' = [config EXCEPT !.server_port = mg.port, !.last_model = mg.model]
    /\ save_config(config')
    /\ server' = IF ~Alive(server.process)
                 THEN [server EXCEPT !.is_running = FALSE] ELSE server
    /\ AutoHandler([obs EXCEPT !.events = Append(@, "server_started"),
                               !.pcb = Append(@, PEvent("complete", "finished")),
                               !.frac = Append(@, 100)])
    /\ mg' = [mg EXCEPT !.pc = "done", !.ret = FALSE]
    /\ sv' = IdleSv
    /\ UNCHANGED <<system_info, calls, host, dlVars, procs>>

\* LocalModelManager.install_dependencies called with a progress callback
\* that raises in the calls of the set raises; the environment is checked
\* after the first callback call
install_dependencies_cb ==
    /\ MgFree
    /\ NewCall
    /\ \E raises \in SUBSET (DOMAIN InstallCalls),
          torch \in InstallOutcomes, deps \in InstallOutcomes :
          LET run == InstallRun(raises, torch, deps) IN
          /\ IF 1 \in raises THEN UNCHANGED system_info
                              ELSE EnsureInfo(system_info')
          /\ mg' = MgReturn("install_dependencies", NoName, 0, run.ret)
          /\ obs' = [NoObs EXCEPT
                        !.events = (IF 1 \in raises THEN <<>> ELSE EnvEvents)
                                   \o (IF run.ret THEN <<>> ELSE <<"install_error">>),
                        !.frac = [i \in 1..run.ncalls |-> InstallCalls[i]],
                        !.out = [raises |-> raises, torch |-> torch, deps |-> deps]]
    /\ UNCHANGED <<config, config_file, host, dlVars, srvVars>>

-----------------------------------------------------------------------------
(* Initial state and the specifications *)

\* the objects right after construction
Constructed ==
    /\ progress = DownloadProgressInit
    /\ stop_flag = FALSE
    /\ download_thread = "None"
    /\ dl = [t \in Threads |-> IdleFrame]
    /\ joiner = "idle"
    /\ procs = <<>>
    /\ server = NoServer
    /\ sv = IdleSv
    /\ system_info = NoInfo
    /\ mg = IdleMg
    /\ calls = 0
    /\ obs = NoObs

\* a downloader on a disk where each model directory is absent, partial or complete
InitDL ==
    /\ Constructed
    /\ fs \in [Paths -> {NoDir, Dir(PartialFiles), Dir(RepoFiles)}]
    /\ \A p \in Paths \ {get_model_path(M9B)} : fs[p] # Dir(PartialFiles)
    /\ config = EmptyConfig
    /\ config_file = config
    /\ host = NoHost

\* a manager whose config file is absent or was written by an earlier run
\* (_load_config), on a disk where the catalog model is absent, partial or complete
Init ==
    /\ Constructed
    /\ fs \in [Paths -> {NoDir, Dir(PartialFiles), Dir(RepoFiles)}]
    /\ fs[get_model_path(MQ4)] = NoDir
    /\ fs[get_model_path(MRepo)] = Dir(RepoFiles)
    /\ config \in {EmptyConfig,
                   [last_model |-> M9B, model_path |-> get_model_path(M9B),
                    server_port |-> 8001]}
    /\ config_file = config
    /\ host = NoHost

\* direct calls keep to one download at a time
CallDownload(model_name) == NoDownload /\ download_model(model_name)
CallDownloadAsync(model_name) == NoDownload /\ download_model_async(model_name)

NextDL ==
    \/ \E n \in Names : CallDownload(n)
    \/ \E n \in Names : CallDownloadAsync(n)
    \/ ThreadRun
    \/ stop_download
    \/ JoinReturn
    \/ \E t \in Threads : GitProbe(t)
    \/ \E t \in Threads : LfsProbe(t)
    \/ \E t \in Threads : RemoveOld(t)
    \/ \E t \in Threads : CloneSpawn(t)
    \/ \E t \in Threads : CloneOutput(t)
    \/ \E t \in Threads : CloneExit(t)

SpecDL == InitDL /\ [][NextDL]_vars

NextSrv ==
    \/ \E p \in Paths, port \in Ports : NewServer(p, port)
    \/ CallStart
    \/ CallStop
    \/ is_running
    \/ StartBegin
    \/ StartGrace
    \/ StartPoll
    \/ StartSleep
    \/ StopBegin
    \/ TermExit
    \/ StopEnd
    \/ \E i \in 1..MaxProcs : ProcExit(i)
    \/ \E i \in 1..MaxProcs : HealthUp(i)
    \/ \E i \in 1..MaxProcs : Hang(i)

SpecSrv == Init /\ [][NextSrv]_vars

Next ==
    \/ check_environment
    \/ get_recommended_setup
    \/ get_status
    \/ install_dependencies
    \/ is_server_running
    \/ \E n \in Names \cup {NoName} : mgr_download_model(n)
    \/ mgr_download_model_end
    \/ \E n \in Names \cup {NoName}, port \in Ports : mgr_start_server(n, port)
    \/ mgr_start_server_end
    \/ mgr_stop_server
    \/ mgr_stop_server_end
    \/ \E n \in Names : delete_model(n)
    \/ GitProbe("main")
    \/ LfsProbe("main")
    \/ RemoveOld("main")
    \/ CloneSpawn("main")
    \/ CloneOutput("main")
    \/ CloneExit("main")
    \/ StartBegin
    \/ StartGrace
    \/ StartPoll
    \/ StartSleep
    \/ StopBegin
    \/ TermExit
    \/ StopEnd
    \/ \E i \in 1..MaxProcs : ProcExit(i)
    \/ \E i \in 1..MaxProcs : HealthUp(i)

Spec == Init /\ [][Next]_vars

NextAuto ==
    \/ auto_setup
    \/ auto_install
    \/ auto_download
    \/ auto_download_end
    \/ auto_start
    \/ auto_start_end
    \/ \E n \in Names : delete_model(n)
    \/ GitProbe("main")
    \/ LfsProbe("main")
    \/ RemoveOld("main")
    \/ CloneSpawn("main")
    \/ CloneOutput("main")
    \/ CloneExit("main")
    \/ StartBegin
    \/ StartGrace
    \/ StartPoll
    \/ StartSleep
    \/ StopBegin
    \/ TermExit
    \/ StopEnd
    \/ \E i \in 1..MaxProcs : ProcExit(i)
    \/ \E i \in 1..MaxProcs : HealthUp(i)

SpecAuto == Init /\ [][NextAuto]_vars

\* a LocalModelManager whose caller passes progress callbacks that may raise
NextCb ==
    \/ auto_setup
    \/ auto_setup_cb_raises
    \/ auto_install
    \/ auto_install_cb_raises
    \/ auto_stage_cb_raises
    \/ auto_download
    \/ auto_download_end
    \/ auto_start
    \/ auto_start_end
    \/ auto_complete_cb_raises
    \/ install_dependencies_cb
    \/ GitProbe("main")
    \/ LfsProbe("main")
    \/ RemoveOld("main")
    \/ CloneSpawn("main")
    \/ CloneOutput("main")
    \/ CloneExit("main")
    \/ StartBegin
    \/ StartGrace
    \/ StartPoll
    \/ StartSleep
    \/ StopBegin
    \/ TermExit
    \/ StopEnd
    \/ \E i \in 1..MaxProcs : ProcExit(i)
    \/ \E i \in 1..MaxProcs : HealthUp(i)

SpecCb == Init /\ [][NextCb]_vars

\* an EnvironmentDetector on any of the hosts
InitEnv ==
    /\ Constructed
    /\ fs = [p \in Paths |-> NoDir]
    /\ config = EmptyConfig
    /\ config_file = config
    /\ host \in Hosts

NextEnv == DetectHost

SpecEnv == InitEnv /\ [][NextEnv]_vars

\* the files a model directory may hold
FileUniverse ==
    {config_json, tokenizer_json, <<"model", ".safetensors">>,
     <<"pytorch_model", ".bin">>, <<"model", ".gguf">>,
     <<"model", ".bin", ".part">>, <<"weights", "/", "model", ".bin">>,
     <<"README", ".md">>}

\* the values of DownloadProgress.status
Statuses == {"waiting", "downloading", "completed", "error"}

\* a downloader over a model directory in any condition, its session in any
\* status
InitFiles ==
    /\ stop_flag = FALSE
    /\ download_thread = "None"
    /\ dl = [t \in Threads |-> IdleFrame]
    /\ joiner = "idle"
    /\ procs = <<>>
    /\ server = NoServer
    /\ sv = IdleSv
    /\ system_info = NoInfo
    /\ mg = IdleMg
    /\ calls = 0
    /\ obs = NoObs
    /\ host = NoHost
    /\ config = EmptyConfig
    /\ config_file = config
    /\ \E st \in Statuses : progress = [DownloadProgressInit EXCEPT !.status = st]
    /\ \E d \in {NoDir} \cup {Dir(files) : files \in SUBSET FileUniverse} :
          fs = [p \in Paths |-> IF p = get_model_path(M9B) THEN d ELSE NoDir]

\* a caller asks whether a model is downloaded
QueryDownloaded(model_name) ==
    /\ obs.out = <<>>
    /\ obs' = [obs EXCEPT !.out = [model |-> model_name,
                                   ret |-> is_model_downloaded(model_name)]]
    /\ UNCHANGED <<system_info, config, config_file, mg, calls, host, dlVars,
                   srvVars>>

NextFiles == \E n \in Names : QueryDownloaded(n)

SpecFiles == InitFiles /\ [][NextFiles]_vars

-----------------------------------------------------------------------------
(* Claims on ModelDownloader, checked under SpecDL *)

ProbeFailed == {"nonzero", "notfound", "timeout"}

\* C1: the status of the DownloadProgress changes only along
\* waiting -> downloading, downloading -> completed and downloading -> error,
\* over any sequence of download_model calls.
C1_StatusMonotonic ==
    [][progress'.status # progress.status =>
         <<progress.status, progress'.status>> \in
             {<<"waiting", "downloading">>, <<"downloading", "completed">>,
              <<"downloading", "error">>}]_vars

\* C6: a download_model call whose git probe or git-lfs probe failed has
\* returned False with status error and a message naming the missing tool,
\* has spawned no clone, and has left the destination directory as it was.
C6_ProbeFailureFailsFast ==
    \A t \in Threads :
        (dl[t].pc = "done" /\ (dl[t].git \in ProbeFailed \/ dl[t].lfs \in ProbeFailed)) =>
            /\ dl[t].ret = FALSE
            /\ progress.status = "error"
            /\ progress.error_message.kind =
                   (IF dl[t].git \in ProbeFailed THEN "Git not installed"
                                                 ELSE "Git LFS not installed")
            /\ dl[t].nclone = 0
            /\ fs[get_model_path(dl[t].model)] = dl[t].dir0

\* C6 witness: the git-lfs probe failed on a call whose destination held a
\* complete model
C6_Witness ==
    \E t \in Threads :
        /\ dl[t].pc = "done"
        /\ dl[t].lfs \in ProbeFailed
        /\ dl[t].dir0 = Dir(RepoFiles)

C8_CancelIsCooperative ==
    /\ [][(stop_download \/ JoinReturn) =>
            (dl' = dl /\ progress' = progress /\ fs' = fs)]_vars
    /\ [](\A t \in Threads :
            /\ (dl[t].pc = "cloning" /\ stop_flag) => progress.status = "downloading"
            /\ (dl[t].pc = "done" /\ dl[t].nclone = 1 /\ stop_flag) =>
                  /\ dl[t].ret = (dl[t].rc = 0)
                  /\ progress.status = (IF dl[t].rc = 0 THEN "completed" ELSE "error"))

\* C8 witness: stop_download has returned and the clone is still running
C8_Witness ==
    /\ stop_flag
    /\ joiner = "idle"
    /\ dl["bg"].pc = "cloning"

-----------------------------------------------------------------------------
(* Claims on VLLMServerManager, checked under SpecSrv *)

\* start() has returned False after it spawned a process
StartFailedAfterSpawn ==
    sv.op = "start" /\ sv.pc = "done" /\ sv.ret = FALSE /\ sv.spawned # None

\* C3: whenever start() has returned failure after spawning the server
\* process, that process is not alive.
C3_FailedStartLeavesNoProcess ==
    StartFailedAfterSpawn => procs[sv.spawned].state = "exited"

\* C3 witness: the start timed out on a live process and the cleanup stop
\* had to kill it
C3_Witness ==
    StartFailedAfterSpawn /\ sv.attempt = startup_timeout - 1
        /\ sv.sig = <<"terminate", "kill">>

\* C4: every failed start after the spawn has run stop(): the process handle
\* is cleared and the running flag is false when start() has returned False.
C4_FailedStartRanStop ==
    StartFailedAfterSpawn => (server.process = None /\ server.is_running = FALSE)

\* C5: is_running() returns true exactly when, at the call, the supervised
\* process is alive and the health endpoint answers with success, whatever
\* the _is_running flag holds.
C5_IsRunningNotCached ==
    [][is_running =>
         (sv'.ret = (Alive(server.process) /\ Health(server.port)))]_vars

\* C5 witness: is_running() answered false for a live process that does not
\* answer, while the flag still says running
C5_Witness ==
    /\ sv.op = "is_running" /\ sv.pc = "done" /\ sv.ret = FALSE
    /\ server.is_running = TRUE
    /\ Alive(server.process)
    /\ procs[server.process].phase = "hung"

-----------------------------------------------------------------------------
(* Claims on LocalModelManager, checked under Spec *)

\* C2: at most one inference-server process spawned by the manager is alive
\* at any time: a start_server issued while an earlier server is alive stops
\* it before the new one is spawned.
C2_AtMostOneServerAlive ==
    Cardinality(AliveProcs) <= 1

\* C9: the in-memory config and the config file change only in the step in
\* which a download_model or start_server call returns True; every other
\* call, and every failing call, leaves them as they are.
C9_ConfigOnlyOnSuccess ==
    [][(config' # config \/ config_file' # config_file) =>
          /\ mg.pc \in {"downloading", "starting"}
          /\ mg'.pc = "done"
          /\ mg'.op \in {"download_model", "start_server"}
          /\ mg'.ret = TRUE]_vars

\* C9 witness: a start_server call failed although its server process was
\* spawned, and no port is persisted
C9_Witness ==
    /\ mg.op = "start_server" /\ mg.pc = "done" /\ mg.ret = FALSE
    /\ server.exists /\ Len(procs) > 0
    /\ config.server_port = 0 /\ config_file.server_port = 0

\* C10: a server process is spawned only by start() with an existing model
\* path, inside a start_server call that resolved a model; start_server with
\* no model id given or persisted, or with a model that is_model_downloaded
\* finds incomplete, returns False in that step without entering start();
\* start() on a missing model path returns False without spawning.
C10_NoSpawnWithoutPreconditions ==
    [][/\ (procs' # procs /\ Len(procs') > Len(procs)) =>
             /\ sv.pc = "start" /\ fs[server.model_path].exists
             /\ mg.op = "start_server" /\ mg.pc = "starting" /\ mg.model # NoName
       /\ \A n \in Names \cup {NoName}, port \in Ports :
             (mgr_start_server(n, port)
                /\ LET name == IF n = NoName THEN config.last_model ELSE n
                   IN name = NoName \/ ~is_model_downloaded(name)) =>
             (mg'.pc = "done" /\ mg'.ret = FALSE /\ sv' = sv /\ procs' = procs
                /\ server' = server)
       /\ (StartBegin /\ ~fs[server.model_path].exists) =>
             (sv'.pc = "done" /\ sv'.ret = FALSE /\ procs' = procs)]_vars

\* C10 witness: start_server passed the completeness check, the model
\* directory was deleted before start() looked at it, and start() returned
\* False with nothing spawned
C10_Witness ==
    /\ mg.op = "start_server" /\ mg.pc = "starting"
    /\ sv.op = "start" /\ sv.pc = "done" /\ sv.ret = FALSE /\ sv.spawned = None
    /\ ~fs[server.model_path].exists
    /\ procs = <<>>

\* C17: on a host that cannot run locally get_recommended_setup returns
\* can_run_local false, model API_MODE and exactly the two steps use API mode,
\* configure API key; on a host that can run locally the steps are numbered
\* 1, 2, ... without a gap, a download step is present exactly when the
\* recommended model is not complete on disk, and the last step starts the
\* server.
C17_RecommendedPlan ==
    [][get_recommended_setup =>
         LET r == obs'.out
             info == system_info'
             steps == r.steps
         IN /\ r.can_run_local = info.can_run_local
            /\ ~info.can_run_local =>
                  /\ r.recommended_model = APIMODE
                  /\ Len(steps) = 2
                  /\ steps[1] = [step |-> 1, action |-> "use_api"]
                  /\ steps[2] = [step |-> 2, action |-> "config_api_key"]
            /\ info.can_run_local =>
                  /\ \A i \in DOMAIN steps : steps[i].step = i
                  /\ (\E i \in DOMAIN steps : steps[i].action = "download_model")
                        <=> ~is_model_downloaded(info.recommended_model)
                  /\ steps[Len(steps)].action = "start_server"]_vars

\* C17 witness: a plan of three dependency steps, the download and the start
C17_Witness ==
    /\ mg.op = "get_recommended_setup" /\ mg.pc = "done"
    /\ obs.out.can_run_local
    /\ Len(obs.out.steps) = 5
    /\ obs.out.steps[4].action = "download_model"

\* the error event of each workflow entry point
ErrorEvent == [install_dependencies |-> "install_error",
               download_model |-> "download_error",
               start_server |-> "server_error"]

\* C13: every call of install_dependencies, download_model or start_server
\* that has returned False has sent its error event (install_error,
\* download_error, server_error) to the status observer as its last event.
C13_FailureReportedToObserver ==
    (mg.pc = "done" /\ mg.op \in DOMAIN ErrorEvent /\ mg.ret = FALSE) =>
        /\ obs.events # <<>>
        /\ obs.events[Len(obs.events)] = ErrorEvent[mg.op]

\* a successful download_model or start_server call has updated the keys of
\* the in-memory configuration, with the model resolved from the
\* recommendation or from last_model when no id was given
ConfigUpdatedOnSuccess ==
    /\ (mgr_download_model_end /\ dl["main"].ret) =>
          /\ config'.last_model = mg.model
          /\ config'.model_path = get_model_path(mg.model)
          /\ config'.server_port = config.server_port
    /\ (mgr_start_server_end /\ sv.ret) =>
          /\ config'.server_port = mg.port
          /\ config'.last_model = mg.model
          /\ config'.model_path = config.model_path
    /\ \A n \in Names \cup {NoName} :
          (mgr_download_model(n) /\ mg'.pc = "downloading") =>
              mg'.model = (IF n = NoName THEN system_info'.recommended_model ELSE n)
    /\ \A n \in Names \cup {NoName}, port \in Ports :
          (mgr_start_server(n, port) /\ mg'.pc = "starting") =>
              /\ mg'.model = (IF n = NoName THEN config.last_model ELSE n)
              /\ mg'.port = port

-----------------------------------------------------------------------------
(* Claims on LocalModelManager.auto_setup, checked under SpecAuto *)

\* the orders in which one auto_setup run may have entered its stages
StageOrders ==
    {<<>>, <<"environment">>, <<"environment", "install">>,
     <<"environment", "install", "download">>,
     <<"environment", "install", "download", "start">>,
     <<"environment", "install", "start">>}

\* C11: one auto_setup run enters its stages in the order environment check,
\* dependency installation, model download, server start; the downloader is
\* entered only after the environment check and the installation of this
\* run; a server process is spawned only in the start stage, after
\* is_model_downloaded has found the model complete (a check made after the
\* download stage, whether the model was downloaded or found present).
C11_StagesInOrder ==
    /\ [](mg.op = "auto_setup" => obs.stages \in StageOrders)
    /\ [][/\ (dl["main"].pc = "idle" /\ dl'["main"].pc # "idle") =>
                 (/\ obs.stages = <<"environment", "install">>
                  /\ system_info.present)
          /\ (Len(procs') > Len(procs)) =>
                 (/\ mg.op = "auto_setup" /\ mg.pc = "as_starting"
                  /\ obs.stages[Len(obs.stages)] = "start"
                  /\ obs.out = [verified |-> TRUE])]_vars

\* C11 witness: the second auto_setup run of a manager has downloaded the
\* model and spawned the server
C11_Witness ==
    /\ calls = 2
    /\ mg.op = "auto_setup" /\ mg.pc = "as_starting"
    /\ obs.stages = <<"environment", "install", "download", "start">>
    /\ sv.spawned # None

\* the progress events that report a failure: the infeasible host, an
\* exception, a download session in status error
FailureNotes == {"infeasible", "exception", "error"}

\* C12: an auto_setup run that has returned False stopped at the stage that
\* failed, and the last event its progress callback received reports that
\* failure.
C12_FailureReportedToProgress ==
    (mg.op = "auto_setup" /\ mg.pc = "done" /\ mg.ret = FALSE) =>
        /\ obs.stages \in StageOrders
        /\ obs.pcb # <<>>
        /\ obs.pcb[Len(obs.pcb)].note \in FailureNotes

-----------------------------------------------------------------------------
(* Claims on EnvironmentDetector, checked under SpecEnv *)

\* a probe that did not deliver: it raised, or the tool exited non-zero
ToolFailed(p) == p.exc \notin {"none", "IndexError"} \/ p.rc # 0

\* C15: detect() never raises; whatever the probes do it returns a SystemInfo
\* in which the failed field is degraded: no accelerator when nvidia-smi and
\* torch both fail, git and git-lfs flagged unavailable when their probe
\* fails, 8000 MB of RAM when the memory query fails; and a recommendation is
\* derived.
C15_DetectNeverRaises ==
    obs.out # <<>> =>
        /\ obs.out.raised = FALSE
        /\ system_info.present
        /\ system_info = obs.out.info
        /\ ((host.nv.exc # "none" \/ host.nv.rc # 0)
              /\ (host.torch.exc # "none" \/ ~host.torch.available)) =>
                 (system_info.gpus = <<>> /\ ~system_info.cuda_available)
        /\ ToolFailed(host.git) =>
                 (~system_info.git_available /\ ~system_info.lfs_available)
        /\ ToolFailed(host.lfs) => ~system_info.lfs_available
        /\ (host.ram.exc # "none" \/ ~host.ram.found) => system_info.ram_total = 8000
        /\ system_info.recommended_model \in {M9B, MQ4, APIMODE}

\* C15 witness: nvidia-smi timed out, torch is not importable, git is missing
\* and the memory query failed
C15_Witness ==
    /\ obs.out # <<>>
    /\ host.nv.exc = "TimeoutExpired"
    /\ host.torch.exc = "ImportError"
    /\ host.git.exc = "FileNotFoundError"
    /\ host.ram.exc = "OSError"
    /\ system_info.present

\* the largest total memory among the accelerators found
MaxMem == CHOOSE m \in {system_info.gpus[i] : i \in DOMAIN system_info.gpus} :
              \A i \in DOMAIN system_info.gpus : system_info.gpus[i] <= m

\* C16: with M the largest accelerator memory, M >= 16000 gives fp16,
\* 10000 <= M < 16000 gives int8, 6000 <= M < 10000 gives q4, all feasible;
\* M < 6000 or no accelerator gives API_MODE, not feasible; feasibility is
\* false exactly when the recommended model is API_MODE.
C16_RecommendationTiers ==
    system_info.present =>
        /\ system_info.can_run_local <=> system_info.recommended_model # APIMODE
        /\ IF system_info.gpus = <<>>
           THEN /\ system_info.recommended_model = APIMODE
                /\ system_info.recommended_quantization = "none"
           ELSE /\ MaxMem >= 16000 =>
                     (/\ system_info.recommended_quantization = "fp16"
                      /\ system_info.recommended_model = M9B)
                /\ (10000 <= MaxMem /\ MaxMem < 16000) =>
                     (/\ system_info.recommended_quantization = "int8"
                      /\ system_info.recommended_model = M9B)
                /\ (6000 <= MaxMem /\ MaxMem < 10000) =>
                     (/\ system_info.recommended_quantization = "q4_k_m"
                      /\ system_info.recommended_model = MQ4)
                /\ MaxMem < 6000 =>
                     (/\ system_info.recommended_quantization = "none"
                      /\ system_info.recommended_model = APIMODE)

\* C16 witness: the largest memory is exactly 10000 MB, next to a smaller
\* accelerator, and the recommendation is int8
C16_Witness ==
    /\ system_info.present
    /\ system_info.gpus = <<10000, 6000>>
    /\ system_info.recommended_quantization = "int8"

-----------------------------------------------------------------------------
(* Claims on is_model_downloaded, checked under SpecFiles *)

\* the file is an entry of the directory itself and its name ends with one of
\* .safetensors, .bin, .gguf
TopLevelWeight(f) ==
    /\ \A i \in DOMAIN f : f[i] # "/"
    /\ f[Len(f)] \in {".safetensors", ".bin", ".gguf"}

\* C18: is_model_downloaded is false when the directory is absent or lacks
\* config.json or tokenizer.json, and true exactly when the directory exists
\* with both metadata files and at least one top-level *.safetensors, *.bin
\* or *.gguf file, whatever the status of the download session.
C18_CompleteIffMetadataAndWeight ==
    obs.out # <<>> =>
        LET d == fs[get_model_path(obs.out.model)] IN
        /\ (~d.exists \/ config_json \notin d.files \/ tokenizer_json \notin d.files)
              => obs.out.ret = FALSE
        /\ obs.out.ret = TRUE <=>
              /\ d.exists
              /\ config_json \in d.files
              /\ tokenizer_json \in d.files
              /\ \E f \in d.files : TopLevelWeight(f)

\* C18 witness: both metadata files, weights only in a subdirectory and as a
\* .part file, a session in status completed: not downloaded
C18_Witness ==
    /\ obs.out # <<>>
    /\ obs.out.model = M9B
    /\ obs.out.ret = FALSE
    /\ progress.status = "completed"
    /\ fs[get_model_path(M9B)].files =
          {config_json, tokenizer_json, <<"model", ".bin", ".part">>,
           <<"weights", "/", "model", ".bin">>}

-----------------------------------------------------------------------------
(* Claims on the lifecycle of VLLMServerManager, checked under SpecSrv *)

\* the lifecycle state of the supervisor: a running start() is starting (its
\* cleanup stop included), a stop() that has sent terminate() is stopping;
\* between calls the supervisor is running when its process is alive and
\* answers the health probe, in error after a failed start, stopped otherwise
Lifecycle ==
    IF sv.pc \notin {"idle", "done"} /\ (sv.op = "start" \/ sv.nested)
    THEN "starting"
    ELSE IF sv.op = "stop" /\ sv.pc = "term_wait" THEN "stopping"
    ELSE IF Alive(server.process) /\ Health(server.port) THEN "running"
    ELSE IF sv.op = "start" /\ sv.pc = "done" /\ ~sv.ret THEN "error"
    ELSE "stopped"

\* the edges of the claim, and the ways out of error, on which the claim is
\* silent
LifecycleEdges ==
    {<<"stopped", "starting">>, <<"starting", "running">>, <<"starting", "error">>,
     <<"running", "stopping">>, <<"stopping", "stopped">>,
     <<"error", "starting">>, <<"error", "stopped">>}

\* C19: every step of start() or stop() that changes the lifecycle state
\* follows an edge stopped -> starting -> running, starting -> error,
\* running -> stopping -> stopped; start() is never entered from running.
C19_LifecycleEdges ==
    [][((sv' # sv \/ server' # server) /\ Lifecycle' # Lifecycle) =>
          <<Lifecycle, Lifecycle'>> \in LifecycleEdges]_vars

\* C20: stop() sends terminate() first and nothing else while it waits; kill()
\* is sent only at the end of the wait to a process that is still alive,
\* never to one that exited within the wait; when stop() returns the process
\* is not alive, the handle is cleared, the flag is false and is_running()
\* answers false.
C20_GracefulThenKill ==
    /\ [](sv.sig \in {<<>>, <<"terminate">>, <<"terminate", "kill">>})
    /\ [][/\ (StopBegin /\ Alive(server.process)) =>
                 (sv'.sig = <<"terminate">> /\ procs' = procs)
          /\ (sv'.sig = <<"terminate", "kill">> /\ sv.sig # sv'.sig) =>
                 (/\ sv.pc = "term_wait" /\ sv.sig = <<"terminate">>
                  /\ Alive(server.process))
          /\ (StopEnd /\ ~Alive(server.process)) => sv'.sig = sv.sig
          /\ ((StopBegin \/ StopEnd) /\ sv'.pc = "done") =>
                 (/\ server.process # None =>
                        procs'[server.process].state = "exited"
                  /\ server'.process = None
                  /\ server'.is_running = FALSE)
          /\ (is_running /\ sv.op = "stop" /\ sv.pc = "done") =>
                 sv'.ret = FALSE]_vars

\* C20 witness: stop() has returned after the process exited within the wait:
\* terminate() was sent and kill() was not
C20_Witness ==
    /\ sv.op = "stop" /\ sv.pc = "done" /\ ~sv.nested
    /\ sv.sig = <<"terminate">>
    /\ server.process = None
    /\ procs # <<>>

-----------------------------------------------------------------------------
(* Claims on stop() of a stopped supervisor, checked under SpecSrv *)

\* C21: stop() on a supervisor with no live process (never started, already
\* stopped, or its process has exited) returns at once, sends neither
\* terminate nor kill, changes no process and leaves the handle cleared and
\* the running flag False; on a supervisor that is already in that stopped
\* state it changes nothing, so stop is idempotent
C21_StopOfStoppedIsNoop ==
    /\ [][(sv.pc = "stop" /\ sv'.pc # "stop" /\ ~Alive(server.process))
             => (/\ sv'.pc = "done"
                 /\ sv'.sig = <<>>
                 /\ procs' = procs
                 /\ server'.process = None
                 /\ ~server'.is_running)]_vars
    /\ [][(sv.pc = "stop" /\ sv'.pc # "stop"
              /\ server.process = None /\ ~server.is_running)
             => (server' = server)]_vars

\* a stop() has returned without a signal on a supervisor that had spawned a
\* process before
C21_Witness ==
    /\ sv.op = "stop" /\ sv.pc = "done" /\ ~sv.nested
    /\ sv.sig = <<>>
    /\ procs # <<>>
    /\ server.process = None /\ ~server.is_running

-----------------------------------------------------------------------------
(* Claims on termination, checked under specifications with fairness *)

\* the steps of a download that the downloader takes by itself: the probes
\* end within their 5 second timeout, rmtree and Popen return, join ends
\* within its 5 seconds; the read loop of the clone advances only when the
\* clone prints a line or exits, so CloneOutput and CloneExit get no fairness
DownloadSteps ==
    \/ ThreadRun
    \/ JoinReturn
    \/ \E t \in Threads : GitProbe(t)
    \/ \E t \in Threads : LfsProbe(t)
    \/ \E t \in Threads : RemoveOld(t)
    \/ \E t \in Threads : CloneSpawn(t)

SpecDLLive == InitDL /\ [][NextDL]_vars /\ WF_vars(DownloadSteps)

\* the steps of start() and stop() that the supervisor takes by itself: the
\* sleeps, the health probe with its 2 second timeout, wait(timeout=10) and
\* the wait() after kill(); what the server process does gets no fairness
ServerSteps ==
    \/ StartBegin
    \/ StartGrace
    \/ StartPoll
    \/ StartSleep
    \/ StopBegin
    \/ StopEnd

SpecSrvLive == Init /\ [][NextSrv]_vars /\ WF_vars(ServerSteps)

\* C22: every download_model that has been entered returns, whatever the
\* clone does
C22_DownloadReturns ==
    \A t \in Threads : (dl[t].pc \notin {"idle", "done"}) ~> (dl[t].pc \in {"idle", "done"})

\* start() and stop() return whatever the server process does
StartStopReturn ==
    (sv.pc \notin {"idle", "done"}) ~> (sv.pc = "done")

-----------------------------------------------------------------------------
(* Claims on concurrent downloads, checked under SpecDLAny *)

\* a caller starts a background download while no earlier background download
\* is running (the model follows one background thread at a time)
SpawnDownload(model_name) == ~Active("bg") /\ download_model_async(model_name)

\* one ModelDownloader whose callers do not wait for a running download:
\* download_model and download_model_async have no guard of their own
NextDLAny ==
    \/ \E n \in Names : download_model(n)
    \/ \E n \in Names : SpawnDownload(n)
    \/ ThreadRun
    \/ stop_download
    \/ JoinReturn
    \/ \E t \in Threads : GitProbe(t)
    \/ \E t \in Threads : LfsProbe(t)
    \/ \E t \in Threads : RemoveOld(t)
    \/ \E t \in Threads : CloneSpawn(t)
    \/ \E t \in Threads : CloneOutput(t)
    \/ \E t \in Threads : CloneExit(t)

SpecDLAny == InitDL /\ [][NextDLAny]_vars

\* thread t is inside download_model, past the catalog lookup: it writes the
\* shared DownloadProgress and removes and clones the model directory
Writing(t) == dl[t].pc \in {"git_probe", "lfs_probe", "rmtree", "spawn", "cloning"}

\* C23: at most one thread at a time is inside download_model of the downloader
C23_SingleWriter ==
    \A t \in Threads, u \in Threads : (Writing(t) /\ Writing(u)) => (t = u)

-----------------------------------------------------------------------------
(* Claims on the polling loop of start(), checked under SpecSrv *)

\* C24: the polling loop of start() probes in iterations 0 .. 29 only, so at
\* most 30 times; a probe that finds the endpoint healthy ends start() with
\* True and the running flag set, and start() returns True in no other way;
\* every iteration re-checks the process after its sleep: a dead process ends
\* start() with False without another probe, a live one leads to the next
\* probe, and after the 30th unsuccessful probe start() goes to its cleanup
\* and returns False
C24_BoundedPolling ==
    /\ [](sv.pc \in {"poll", "sleep"} => sv.attempt \in 0..(startup_timeout - 1))
    /\ []((sv.nested /\ sv.pc = "done") => ~sv.ret)
    /\ [][(sv.pc = "poll" /\ sv' # sv)
             => (IF Health(server.port)
                 THEN sv'.pc = "done" /\ sv'.ret /\ server'.is_running
                 ELSE sv'.pc = "sleep" /\ sv'.attempt = sv.attempt)]_vars
    /\ [][(sv'.op = "start" /\ sv'.pc = "done" /\ sv'.ret /\ sv # sv')
             => (sv.pc = "poll" /\ Health(server.port))]_vars
    /\ [][(sv.pc = "sleep" /\ sv' # sv)
             => (IF ~Alive(server.process)
                 THEN sv'.pc = "done" /\ ~sv'.ret
                 ELSE IF sv.attempt = startup_timeout - 1
                 THEN sv'.pc = "stop" /\ sv'.nested
                 ELSE sv'.pc = "poll" /\ sv'.attempt = sv.attempt + 1)]_vars

\* a start() has returned False after its 30th probe and the cleanup
C24_Witness ==
    /\ sv.op = "start" /\ sv.pc = "done" /\ ~sv.ret
    /\ sv.nested
    /\ sv.attempt = startup_timeout - 1

-----------------------------------------------------------------------------
(* Claims on the recommended model and the catalog, checked under Spec *)

\* C25: a profile that says the host can run a model locally recommends a
\* model of the downloader's catalog
C25_RecommendedInCatalog ==
    (system_info.present /\ system_info.can_run_local)
        => (system_info.recommended_model \in AVAILABLE_MODELS)

-----------------------------------------------------------------------------
(* Claims on the artifact after a failed download, checked under SpecDL *)

\* the checks of is_model_downloaded on a directory as it was at some moment
Complete(d) ==
    /\ d.exists
    /\ required_files \subseteq d.files
    /\ \E pattern \in weight_patterns : glob(d, pattern) # {}

\* C26: when download_model has returned False for a model that was complete
\* when the call began, the model is still complete
C26_FailedDownloadKeepsArtifact ==
    \A t \in Threads :
        (dl[t].pc = "done" /\ ~dl[t].ret /\ Complete(dl[t].dir0))
            => is_model_downloaded(dl[t].model)

-----------------------------------------------------------------------------
(* Claims on the persisted configuration, checked under Spec *)

\* C27: whenever the configuration file holds both last_model and model_path,
\* model_path is the downloader's path of last_model
C27_ConfigSelfConsistent ==
    (config_file.last_model # NoName /\ config_file.model_path # <<>>)
        => (config_file.model_path = get_model_path(config_file.last_model))

-----------------------------------------------------------------------------
(* Claims on the observer events of one call, checked under Spec *)

\* how many events of the running call are in the set
Count(events, set) == Cardinality({i \in DOMAIN events : events[i] \in set})

DownloadTerminal == {"download_complete", "download_error"}
ServerTerminal == {"server_started", "server_error"}

\* the last event the observer received
LastEvent == obs.events[Len(obs.events)]

\* C28: inside download_model, after download_start no terminal event has been
\* sent; when the call returns, download_start is followed by exactly one of
\* download_complete / download_error as the last event, or neither was sent;
\* inside start_server the only event is server_starting; when the call
\* returns there is exactly one of server_started / server_error, it is the
\* last event, and server_started comes right after the server_starting of
\* the call; the server process of the call is spawned after server_starting
C28_BeginEndProtocol ==
    /\ [](mg.pc = "downloading"
            => (/\ Count(obs.events, {"download_start"}) = 1
                /\ LastEvent = "download_start"
                /\ Count(obs.events, DownloadTerminal) = 0))
    /\ []((mg.op = "download_model" /\ mg.pc = "done")
            => (IF Count(obs.events, {"download_start"}) = 0
                THEN Count(obs.events, DownloadTerminal) = 0
                ELSE /\ Count(obs.events, {"download_start"}) = 1
                     /\ Count(obs.events, DownloadTerminal) = 1
                     /\ LastEvent = (IF mg.ret THEN "download_complete"
                                               ELSE "download_error")
                     /\ obs.events[Len(obs.events) - 1] = "download_start"))
    /\ [](mg.pc = "starting" => obs.events = <<"server_starting">>)
    /\ []((mg.op = "start_server" /\ mg.pc = "done")
            => (/\ Count(obs.events, ServerTerminal) = 1
                /\ obs.events \in {<<"server_error">>,
                                    <<"server_starting", "server_error">>,
                                    <<"server_starting", "server_started">>}
                /\ mg.ret = (LastEvent = "server_started")))
    /\ [][(Len(procs') > Len(procs))
             => (mg.pc = "starting" /\ obs.events = <<"server_starting">>)]_vars

\* a start_server has returned True after server_starting and server_started
C28_Witness ==
    /\ mg.op = "start_server" /\ mg.pc = "done" /\ mg.ret
    /\ obs.events = <<"server_starting", "server_started">>
    /\ procs # <<>>

-----------------------------------------------------------------------------
(* Claims on callbacks that raise, checked under SpecCb *)

\* C29: no call ends with the callback's exception reaching its caller;
\* install_dependencies returns what it returns with a callback that never
\* raises; an auto_setup run whose server start has been reported with
\* server_started returns True
C29_CallbackCannotChangeOutcome ==
    /\ ~obs.raised
    /\ (mg.op = "install_dependencies" /\ mg.pc = "done")
          => (mg.ret = InstallRun({}, obs.out.torch, obs.out.deps).ret)
    /\ (mg.op = "auto_setup" /\ mg.pc = "done" /\ obs.events # <<>>
           /\ obs.events[Len(obs.events)] = "server_started")
          => mg.ret

\* C30: in an auto_setup run the fractions passed to the progress callback
\* are whole percentages in 0..100 that never decrease, and 100 is passed in
\* the last call only, with which the run ends
C30_FractionsMonotone ==
    mg.op = "auto_setup" =>
        /\ \A i \in DOMAIN obs.frac : obs.frac[i] \in 0..100
        /\ \A i \in DOMAIN obs.frac, j \in DOMAIN obs.frac :
              (i < j) => (obs.frac[i] <= obs.frac[j])
        /\ \A i \in DOMAIN obs.frac :
              (obs.frac[i] = 100) => (i = Len(obs.frac) /\ mg.pc = "done")

====
